---- MODULE Spec2Model ----
(***************************************************************************)
(* BrowserZip (src/browserzip.js): the entry registry (addFile, addFolder), *)
(* the CRC-32 worker pool and the streaming encoder generateZipStream.     *)
(*                                                                         *)
(* Numbers.  JavaScript Numbers and BigInts that can exceed 2^31 (sizes,   *)
(* offsets, CRC-32 values, 32-bit header fields) are written as a pair     *)
(* <<hi, lo>> standing for hi * 2^16 + lo, with 0 <= lo < 2^16.  -1 is     *)
(* <<-1, 65535>>.  16-bit fields and small counts are plain integers.      *)
(* Characters are Unicode code points, bytes are 0..255.                   *)
(***************************************************************************)
EXTENDS Integers, Sequences, FiniteSets, TLC

VARIABLES files, heap, gens, pool, promises, wjobs, outbox, last, filesAtCall

vars == <<files, heap, gens, pool, promises, wjobs, outbox, last, filesAtCall>>

(***************************************************************************)
(* Bounds of the model.                                                    *)
(***************************************************************************)
MaxEntries == 2
MaxTasks == 2
NumWorkers == 2

GenIds == {1}

(***************************************************************************)
(* Wide-number arithmetic.                                                 *)
(***************************************************************************)
Half == 256 * 256

W(n) == <<n \div Half, n % Half>>

WAdd(a, b) == <<a[1] + b[1] + ((a[2] + b[2]) \div Half), (a[2] + b[2]) % Half>>

WLt(a, b) == a[1] < b[1] \/ (a[1] = b[1] /\ a[2] < b[2])

WGe(a, b) == ~WLt(a, b)

WZero == <<0, 0>>

MinusOne == <<-1, Half - 1>>

\* DataView.setUint32 / setUint16 / setBigUint64 keep the low bits of the value.
U32(a) == <<a[1] % Half, a[2]>>

U16(n) == n % Half

\* Mutant of U64: the value is cut to 32 bits.
U64Cut(a) == U32(a)

U64(a) == a

\* 0xFFFFFFFF and 0xFFFF, the limits the code compares against.
MAX32 == <<Half - 1, Half - 1>>

\* Mutant of MAX16: the limit of the entry count is taken as 0x10000.
MAX16TooWide == Half

MAX16 == Half - 1

RECURSIVE WSum(_)
WSum(s) == IF s = <<>> THEN WZero ELSE WAdd(s[1], WSum(Tail(s)))

(***************************************************************************)
(* Bit operations on 16-bit halves and on 32-bit pairs.                    *)
(***************************************************************************)
RECURSIVE Xor(_, _, _)
Xor(a, b, bits) ==
  IF bits = 0 THEN 0
  ELSE ((a + b) % 2) + 2 * Xor(a \div 2, b \div 2, bits - 1)

Xor32(a, b) == <<Xor(a[1], b[1], 16), Xor(a[2], b[2], 16)>>

\* c >>> 1 and c >>> 8 on an unsigned 32-bit value.
Shr1(c) == <<c[1] \div 2, (c[2] \div 2) + (c[1] % 2) * 32768>>

Shr8(c) == <<c[1] \div 256, (c[2] \div 256) + (c[1] % 256) * 256>>

RECURSIVE Or(_, _, _)
Or(a, b, bits) ==
  IF bits = 0 THEN 0
  ELSE (IF (a % 2) + (b % 2) > 0 THEN 1 ELSE 0) + 2 * Or(a \div 2, b \div 2, bits - 1)

RECURSIVE Shl(_, _)
Shl(a, k) == IF k = 0 THEN a ELSE Shl(2 * a, k - 1)

(***************************************************************************)
(* Program constants (src/browserzip.js:161-175).                          *)
(***************************************************************************)
LOCAL_FILE_HEADER_SIGNATURE == <<1027, 19280>>
CENTRAL_DIR_SIGNATURE == <<513, 19280>>
END_OF_CENTRAL_DIR_SIGNATURE == <<1541, 19280>>
ZIP64_END_OF_CENTRAL_DIR_SIGNATURE == <<1542, 19280>>
ZIP64_END_OF_CENTRAL_DIR_LOCATOR_SIGNATURE == <<1798, 19280>>
VERSION_NEEDED_DEFAULT == 20
VERSION_NEEDED_ZIP64 == 45
METHOD_STORE == 0
FLAG_UTF8 == 2048
MSDOS_DIR_ATTR == 16
ZIP64_EXTRA_FIELD_ID == 1
ZIP64_EXTRA_FIELD_SIZE_NO_OFFSET == 16

\* 0xEDB88320, the reflected CRC-32 polynomial.
POLY == <<60856, 33568>>

(***************************************************************************)
(* CRC-32.  The register starts at 0xFFFFFFFF, is updated byte by byte     *)
(* through the 256-entry table and is XORed with 0xFFFFFFFF at the end.    *)
(***************************************************************************)
RECURSIVE TableLoop(_, _)
TableLoop(c, j) ==
  IF j = 8 THEN c
  ELSE TableLoop(IF c[2] % 2 = 1 THEN Xor32(POLY, Shr1(c)) ELSE Shr1(c), j + 1)

crc32Table == [i \in 0..255 |-> TableLoop(<<0, i>>, 0)]

workerCrc32Table == [i \in 0..255 |-> TableLoop(<<0, i>>, 0)]

RECURSIVE crcLoop(_, _, _)
crcLoop(crc, data, i) ==
  IF i > Len(data) THEN crc
  ELSE crcLoop(Xor32(Shr8(crc), crc32Table[Xor(crc[2] % 256, data[i], 8)]), data, i + 1)

computeCRC32(data) == Xor32(crcLoop(MAX32, data, 1), MAX32)

\* The worker's inner loop over one chunk of literal bytes.
RECURSIVE workerLoop(_, _, _)
workerLoop(crc, data, i) ==
  IF i > Len(data) THEN crc
  ELSE workerLoop(Xor32(Shr8(crc), workerCrc32Table[Xor(crc[2] % 256, data[i], 8)]),
                  data, i + 1)

\* The same loop over a run of `len` zero bytes, for the runs too long to
\* iterate: the register values below are the loop's results on these inputs
\* (0x174841bc is the register after the single byte 97).
ZeroRun(crc, len) ==
  CASE len = WZero -> crc
    [] crc = <<5960, 16828>> /\ len = <<65535, 65534>> -> <<65535, 65438>>
    [] crc = <<5960, 16828>> /\ len = <<32768, 0>> -> <<39440, 18091>>
    [] crc = <<39440, 18091>> /\ len = <<32767, 65534>> -> <<65535, 65438>>

\* A chunk of a Blob's stream: literal bytes followed by a run of zero bytes.
Chunk(data, zeros) == [data |-> data, zeros |-> zeros]

ChunkLen(c) == WAdd(W(Len(c.data)), c.zeros)

\* Mutant of workerChunk: the register starts again at every chunk.
workerChunkReseeded(crc, c) == ZeroRun(workerLoop(MAX32, c.data, 1), c.zeros)

workerChunk(crc, c) == ZeroRun(workerLoop(crc, c.data, 1), c.zeros)

\* Mutant of workerResult: the final XOR with 0xFFFFFFFF is left out.
workerResultRaw(crc) == crc

workerResult(crc) == Xor32(crc, MAX32)

(***************************************************************************)
(* Strings: TextEncoder.encode, endsWith('/'), slice(0, -1).               *)
(***************************************************************************)
SLASH == <<47>>

Utf8Char(cp) ==
  IF cp < 128 THEN <<cp>>
  ELSE IF cp < 2048 THEN <<192 + (cp \div 64), 128 + (cp % 64)>>
  ELSE <<224 + (cp \div 4096), 128 + ((cp \div 64) % 64), 128 + (cp % 64)>>

RECURSIVE encode(_)
encode(str) == IF str = <<>> THEN <<>> ELSE Utf8Char(Head(str)) \o encode(Tail(str))

endsWithSlash(str) == Len(str) > 0 /\ str[Len(str)] = SLASH[1]

sliceLast(str) == SubSeq(str, 1, Len(str) - 1)

(***************************************************************************)
(* dateToDos.  A Date is its local-time fields; month is getMonth().       *)
(***************************************************************************)
dateToDos(jsDate) ==
  LET date == jsDate.date
      month == jsDate.month + 1
      year == jsDate.year
      hours == jsDate.hours
      minutes == jsDate.minutes
      seconds == jsDate.seconds \div 2
  IN  IF year < 1980
      THEN [dosTime |-> 0, dosDate |-> Or(Shl(1, 5), 1, 24)]
      ELSE [dosTime |-> Or(Or(Shl(hours, 11), Shl(minutes, 5), 24), seconds, 24),
            dosDate |-> Or(Or(Shl(year - 1980, 9), Shl(month, 5), 24), date, 24)]

(***************************************************************************)
(* Contents.  What a caller passes to addFile: a string, a Uint8Array, a   *)
(* Blob, or a value of none of these types.  A Blob's bytes are `data`     *)
(* followed by `zeros` zero bytes.                                         *)
(***************************************************************************)
Null == <<>>

Content(type, data, zeros) == [type |-> type, data |-> data, zeros |-> zeros]

\* Mutant of RecognizedTypes: a number is taken as content too.
RecognizedTypesLoose == {"Blob", "string", "Uint8Array", "number"}

RecognizedTypes == {"Blob", "string", "Uint8Array"}

\* Blob.size, Uint8Array.length.
ContentSize(c) == WAdd(W(Len(c.data)), c.zeros)

(***************************************************************************)
(* createLocalFileHeader: the header as its fields, with the length of the *)
(* byte array the code allocates for it.                                   *)
(***************************************************************************)
OrZero(crc32) == IF crc32 = Null THEN WZero ELSE crc32

\* Mutant of createLocalFileHeader: the header is built without ZIP64.
createLocalFileHeaderNoZip64(fileRecord) ==
  [kind |-> "LFH",
   signature |-> U32(LOCAL_FILE_HEADER_SIGNATURE),
   versionNeeded |-> U16(VERSION_NEEDED_DEFAULT),
   flags |-> U16(FLAG_UTF8),
   method |-> U16(METHOD_STORE),
   dosTime |-> U16(fileRecord.dosTime),
   dosDate |-> U16(fileRecord.dosDate),
   crc32 |-> U32(OrZero(fileRecord.crc32)),
   compressedSize |-> U32(fileRecord.size),
   uncompressedSize |-> U32(fileRecord.size),
   nameLength |-> U16(Len(fileRecord.encodedName)),
   extraLength |-> 0,
   name |-> fileRecord.encodedName,
   extra |-> <<>>,
   byteLength |-> 30 + Len(fileRecord.encodedName)]

createLocalFileHeader(fileRecord) ==
  LET encodedName == fileRecord.encodedName
      size == fileRecord.size
      useZip64 == WGe(size, MAX32)
      extraFieldSize == IF useZip64 THEN 4 + ZIP64_EXTRA_FIELD_SIZE_NO_OFFSET ELSE 0
      headerSize == 30 + Len(encodedName) + extraFieldSize
      sizeField == IF useZip64 THEN MAX32 ELSE size
  IN  [kind |-> "LFH",
       signature |-> U32(LOCAL_FILE_HEADER_SIGNATURE),
       versionNeeded |-> U16(IF useZip64 THEN VERSION_NEEDED_ZIP64 ELSE VERSION_NEEDED_DEFAULT),
       flags |-> U16(FLAG_UTF8),
       method |-> U16(METHOD_STORE),
       dosTime |-> U16(fileRecord.dosTime),
       dosDate |-> U16(fileRecord.dosDate),
       crc32 |-> U32(OrZero(fileRecord.crc32)),
       compressedSize |-> U32(sizeField),
       uncompressedSize |-> U32(sizeField),
       nameLength |-> U16(Len(encodedName)),
       extraLength |-> U16(extraFieldSize),
       name |-> encodedName,
       extra |-> IF useZip64
                 THEN <<[id |-> U16(ZIP64_EXTRA_FIELD_ID),
                         dataSize |-> U16(ZIP64_EXTRA_FIELD_SIZE_NO_OFFSET),
                         values |-> <<U64(size), U64(size)>>]>>
                 ELSE <<>>,
       byteLength |-> headerSize]

\* Mutant of externalAttributes: the directory bit is not shifted.
externalAttributesUnshifted(isDirectory) == IF isDirectory THEN <<0, MSDOS_DIR_ATTR>> ELSE WZero

\* Line 451: isDirectory ? (MSDOS_DIR_ATTR << 16) : 0.
externalAttributes(isDirectory) == IF isDirectory THEN <<MSDOS_DIR_ATTR, 0>> ELSE WZero

(***************************************************************************)
(* createCentralDirectoryHeader.  zip64Data is the list of the 64-bit      *)
(* values pushed into the extra field, 8 bytes each.                       *)
(***************************************************************************)
\* Mutant of createCentralDirectoryHeader: the versions follow the size alone,
\* as in the local header.
createCentralDirectoryHeaderMirror(fileRecord) ==
  LET encodedName == fileRecord.encodedName
      size == fileRecord.size
      localHeaderOffset == fileRecord.localHeaderOffset
      useZip64 == WGe(size, MAX32)
      needsSizeZip64 == WGe(size, MAX32)
      needsOffsetZip64 == WGe(localHeaderOffset, MAX32)
      zip64Data == (IF needsSizeZip64 THEN <<U64(size), U64(size)>> ELSE <<>>)
                   \o (IF needsOffsetZip64 THEN <<U64(localHeaderOffset)>> ELSE <<>>)
      zip64DataLength == 8 * Len(zip64Data)
      zip64ExtraFieldSize == IF zip64DataLength > 0 THEN 4 + zip64DataLength ELSE 0
      headerSize == 46 + Len(encodedName) + zip64ExtraFieldSize
      sizeField == IF needsSizeZip64 THEN MAX32 ELSE size
      offsetField == IF needsOffsetZip64 THEN MAX32 ELSE localHeaderOffset
  IN  [kind |-> "CDH",
       signature |-> U32(CENTRAL_DIR_SIGNATURE),
       versionMadeBy |-> U16(IF useZip64 THEN VERSION_NEEDED_ZIP64 ELSE VERSION_NEEDED_DEFAULT),
       versionNeeded |-> U16(IF useZip64 THEN VERSION_NEEDED_ZIP64 ELSE VERSION_NEEDED_DEFAULT),
       flags |-> U16(FLAG_UTF8),
       method |-> U16(METHOD_STORE),
       dosTime |-> U16(fileRecord.dosTime),
       dosDate |-> U16(fileRecord.dosDate),
       crc32 |-> U32(OrZero(fileRecord.crc32)),
       compressedSize |-> U32(sizeField),
       uncompressedSize |-> U32(sizeField),
       nameLength |-> U16(Len(encodedName)),
       extraLength |-> U16(zip64ExtraFieldSize),
       commentLength |-> 0,
       diskNumberStart |-> 0,
       internalAttributes |-> 0,
       externalAttributes |-> U32(externalAttributes(fileRecord.isDirectory)),
       localHeaderOffset |-> U32(offsetField),
       name |-> encodedName,
       extra |-> IF zip64ExtraFieldSize > 0
                 THEN <<[id |-> U16(ZIP64_EXTRA_FIELD_ID),
                         dataSize |-> U16(zip64DataLength),
                         values |-> zip64Data]>>
                 ELSE <<>>,
       byteLength |-> headerSize]

createCentralDirectoryHeader(fileRecord) ==
  LET encodedName == fileRecord.encodedName
      size == fileRecord.size
      localHeaderOffset == fileRecord.localHeaderOffset
      useZip64 == WGe(size, MAX32) \/ WGe(localHeaderOffset, MAX32)
      needsSizeZip64 == WGe(size, MAX32)
      needsOffsetZip64 == WGe(localHeaderOffset, MAX32)
      zip64Data == (IF needsSizeZip64 THEN <<U64(size), U64(size)>> ELSE <<>>)
                   \o (IF needsOffsetZip64 THEN <<U64(localHeaderOffset)>> ELSE <<>>)
      zip64DataLength == 8 * Len(zip64Data)
      zip64ExtraFieldSize == IF zip64DataLength > 0 THEN 4 + zip64DataLength ELSE 0
      headerSize == 46 + Len(encodedName) + zip64ExtraFieldSize
      sizeField == IF needsSizeZip64 THEN MAX32 ELSE size
      offsetField == IF needsOffsetZip64 THEN MAX32 ELSE localHeaderOffset
  IN  [kind |-> "CDH",
       signature |-> U32(CENTRAL_DIR_SIGNATURE),
       versionMadeBy |-> U16(IF useZip64 THEN VERSION_NEEDED_ZIP64 ELSE VERSION_NEEDED_DEFAULT),
       versionNeeded |-> U16(IF useZip64 THEN VERSION_NEEDED_ZIP64 ELSE VERSION_NEEDED_DEFAULT),
       flags |-> U16(FLAG_UTF8),
       method |-> U16(METHOD_STORE),
       dosTime |-> U16(fileRecord.dosTime),
       dosDate |-> U16(fileRecord.dosDate),
       crc32 |-> U32(OrZero(fileRecord.crc32)),
       compressedSize |-> U32(sizeField),
       uncompressedSize |-> U32(sizeField),
       nameLength |-> U16(Len(encodedName)),
       extraLength |-> U16(zip64ExtraFieldSize),
       commentLength |-> 0,
       diskNumberStart |-> 0,
       internalAttributes |-> 0,
       externalAttributes |-> U32(externalAttributes(fileRecord.isDirectory)),
       localHeaderOffset |-> U32(offsetField),
       name |-> encodedName,
       extra |-> IF zip64ExtraFieldSize > 0
                 THEN <<[id |-> U16(ZIP64_EXTRA_FIELD_ID),
                         dataSize |-> U16(zip64DataLength),
                         values |-> zip64Data]>>
                 ELSE <<>>,
       byteLength |-> headerSize]

(***************************************************************************)
(* createEndRecords.                                                       *)
(***************************************************************************)
\* Mutant of createEndRecords: the standard record alone, whatever the values.
createEndRecordsStandardOnly(centralDirectoryOffset, centralDirectorySize, totalEntries) ==
  <<[kind |-> "EOCD",
     signature |-> U32(END_OF_CENTRAL_DIR_SIGNATURE),
     diskNumber |-> 0,
     cdDisk |-> 0,
     entriesOnDisk |-> U16(totalEntries),
     totalEntries |-> U16(totalEntries),
     cdSize |-> U32(centralDirectorySize),
     cdOffset |-> U32(centralDirectoryOffset),
     commentLength |-> 0,
     byteLength |-> 22]>>

createEndRecords(centralDirectoryOffset, centralDirectorySize, totalEntries) ==
  LET useZip64 == \/ WGe(centralDirectoryOffset, MAX32)
                  \/ WGe(centralDirectorySize, MAX32)
                  \/ totalEntries >= MAX16
      eocd == [kind |-> "EOCD",
               signature |-> U32(END_OF_CENTRAL_DIR_SIGNATURE),
               diskNumber |-> 0,
               cdDisk |-> 0,
               entriesOnDisk |-> U16(IF useZip64 THEN MAX16 ELSE totalEntries),
               totalEntries |-> U16(IF useZip64 THEN MAX16 ELSE totalEntries),
               cdSize |-> U32(IF useZip64 THEN MAX32 ELSE centralDirectorySize),
               cdOffset |-> U32(IF useZip64 THEN MAX32 ELSE centralDirectoryOffset),
               commentLength |-> 0,
               byteLength |-> 22]
      zip64End == [kind |-> "Z64EOCD",
                   signature |-> U32(ZIP64_END_OF_CENTRAL_DIR_SIGNATURE),
                   recordSize |-> U64(W(44)),
                   versionMadeBy |-> U16(VERSION_NEEDED_ZIP64),
                   versionNeeded |-> U16(VERSION_NEEDED_ZIP64),
                   diskNumber |-> 0,
                   cdDisk |-> 0,
                   entriesOnDisk |-> U64(W(totalEntries)),
                   totalEntries |-> U64(W(totalEntries)),
                   cdSize |-> U64(centralDirectorySize),
                   cdOffset |-> U64(centralDirectoryOffset),
                   byteLength |-> 56]
      zip64Locator == [kind |-> "Z64LOC",
                       signature |-> U32(ZIP64_END_OF_CENTRAL_DIR_LOCATOR_SIGNATURE),
                       disk |-> 0,
                       zip64EndOffset |-> U64(WAdd(centralDirectoryOffset, centralDirectorySize)),
                       totalDisks |-> 1,
                       byteLength |-> 20]
  IN  IF useZip64 THEN <<zip64End, zip64Locator, eocd>> ELSE <<eocd>>

\* A content chunk as it sits in the output.
DataChunk(c) == [kind |-> "data", data |-> c.data, zeros |-> c.zeros]

\* byteLength of any chunk of the output.
ByteLength(c) == IF c.kind = "data" THEN ChunkLen(c) ELSE W(c.byteLength)

RECURSIVE TotalLength(_)
TotalLength(chunks) ==
  IF chunks = <<>> THEN WZero ELSE WAdd(ByteLength(chunks[1]), TotalLength(Tail(chunks)))

(***************************************************************************)
(* Reading a Blob through blob.stream().getReader().  The stream decides   *)
(* the chunk boundaries: a read yields some non-empty prefix of what is    *)
(* left (of the literal bytes, then of the zero run, which is cut at       *)
(* 0x80000000 or not at all).  No choice means {done: true}.               *)
(***************************************************************************)
WSub(a, b) == <<a[1] - b[1] - (IF a[2] < b[2] THEN 1 ELSE 0), (a[2] - b[2]) % Half>>

ZeroCut == <<32768, 0>>

NewReader(blob) == [pos |-> 0, zerosLeft |-> blob.zeros]

ReadChoices(blob, reader) ==
  IF reader.pos < Len(blob.data)
  THEN {Chunk(SubSeq(blob.data, reader.pos + 1, reader.pos + k), WZero) :
          k \in 1..(Len(blob.data) - reader.pos)}
  ELSE IF reader.zerosLeft # WZero
  THEN {Chunk(<<>>, reader.zerosLeft)}
       \cup (IF WLt(ZeroCut, reader.zerosLeft) THEN {Chunk(<<>>, ZeroCut)} ELSE {})
  ELSE {}

Advance(reader, c) ==
  [pos |-> reader.pos + Len(c.data), zerosLeft |-> WSub(reader.zerosLeft, c.zeros)]

(***************************************************************************)
(* The registry: this.files, a Map in insertion order, as a sequence of    *)
(* [key, ref]; the entry records live in `heap`, so that the array taken   *)
(* by generateZipStream shares them with the Map.                          *)
(***************************************************************************)
Keys(f) == {f[i].key : i \in 1..Len(f)}

has(f, name) == name \in Keys(f)

IndexOf(f, name) == CHOOSE i \in 1..Len(f) : f[i].key = name

\* Map.prototype.set: a new key goes last, an existing key keeps its place.
MapSet(f, name, ref) ==
  IF has(f, name)
  THEN [f EXCEPT ![IndexOf(f, name)] = [key |-> name, ref |-> ref]]
  ELSE Append(f, [key |-> name, ref |-> ref])

\* Array.from(this.files.values()).
Values(f) == [i \in 1..Len(f) |-> f[i].ref]

Refs(seq) == {seq[i] : i \in 1..Len(seq)}

FreshRef(h) == CHOOSE i \in 1..(Cardinality(DOMAIN h) + 1) :
                 i \notin DOMAIN h /\ \A j \in 1..(i - 1) : j \in DOMAIN h

\* Records no longer referenced by the Map or by a live generation are dropped.
Collect(h, f, gs) ==
  LET live == Refs(Values(f)) \cup UNION {Refs(gs[g].fileRecords) : g \in DOMAIN gs}
  IN  [i \in (DOMAIN h) \cap live |-> h[i]]

(***************************************************************************)
(* Inputs of the model.                                                    *)
(***************************************************************************)
NameInputs == {<<233>>, <<233, 47>>, <<233, 47, 47>>}

SmallBlob == Content("Blob", <<97, 98>>, WZero)

BigBlob == Content("Blob", <<97>>, <<65535, 65534>>)

ContentInputs ==
  {Content("string", <<233>>, WZero),
   Content("Uint8Array", <<>>, WZero),
   SmallBlob,
   BigBlob,
   Content("number", <<>>, WZero)}

DateInputs == {[year |-> 2023, month |-> 10, date |-> 20, hours |-> 10, minutes |-> 30, seconds |-> 0]}

(***************************************************************************)
(* The main thread runs one job at a time.  A generation is inside a job   *)
(* while its pc is one of SyncPcs; it is suspended at "awaitCRC" and at    *)
(* "awaitRead"; "closed" and "errored" are the two ends of its stream.     *)
(***************************************************************************)
SyncPcs == {"crc", "header", "content", "central", "cd", "end", "clear"}

Running == \E g \in DOMAIN gens : gens[g].pc \in SyncPcs

Settled(g) == gens[g].pc = "awaitCRC" /\ promises[gens[g].taskId].state # "pending"

\* No job is running and no continuation is waiting in the microtask queue.
MainIdle == ~Running /\ \A g \in DOMAIN gens : ~Settled(g)

(***************************************************************************)
(* addFile and addFolder.                                                  *)
(***************************************************************************)
\* What the caller sees of its last call: it returned, warned, or threw.
Call(op, result) == [op |-> op, result |-> result]

\* The stored content and the record addFile builds (lines 253-289).
fileRecordOf(name, content, lastModified) ==
  LET storedContent == IF content.type = "string"
                       THEN Content("Uint8Array", encode(content.data), WZero)
                       ELSE content
      dosDateTime == dateToDos(lastModified)
  IN  [name |-> name,
       encodedName |-> encode(name),
       content |-> storedContent,
       crc32 |-> IF content.type = "Blob" THEN Null ELSE computeCRC32(storedContent.data),
       size |-> ContentSize(storedContent),
       isDirectory |-> FALSE,
       dosTime |-> dosDateTime.dosTime,
       dosDate |-> dosDateTime.dosDate,
       localHeaderOffset |-> MinusOne]

addFileName(name) == IF endsWithSlash(name) THEN sliceLast(name) ELSE name

AddFile(name, content, lastModified) ==
  /\ MainIdle
  /\ UNCHANGED <<gens, pool, promises, wjobs, outbox, filesAtCall>>
  /\ IF has(files, name)
     THEN /\ last' = Call("addFile", "ignored")
          /\ UNCHANGED <<files, heap>>
     ELSE IF content.type \notin RecognizedTypes
     THEN /\ last' = Call("addFile", "thrown")
          /\ UNCHANGED <<files, heap>>
     ELSE LET stored == addFileName(name)
              ref == FreshRef(heap)
              f == MapSet(files, stored, ref)
          IN  /\ Len(f) <= MaxEntries
              /\ files' = f
              /\ heap' = Collect([i \in DOMAIN heap \cup {ref} |->
                                    IF i = ref THEN fileRecordOf(stored, content, lastModified)
                                    ELSE heap[i]], f, gens)
              /\ last' = Call("addFile", "added")

addFolderName(folderName) == IF ~endsWithSlash(folderName) THEN folderName \o SLASH ELSE folderName

folderRecordOf(folderName, lastModified) ==
  LET dosDateTime == dateToDos(lastModified)
  IN  [name |-> folderName,
       encodedName |-> encode(folderName),
       content |-> Content("Uint8Array", <<>>, WZero),
       crc32 |-> WZero,
       size |-> WZero,
       isDirectory |-> TRUE,
       dosTime |-> dosDateTime.dosTime,
       dosDate |-> dosDateTime.dosDate,
       localHeaderOffset |-> MinusOne]

AddFolder(name, lastModified) ==
  LET folderName == addFolderName(name)
  IN  /\ MainIdle
      /\ UNCHANGED <<gens, pool, promises, wjobs, outbox, filesAtCall>>
      /\ IF has(files, folderName)
         THEN /\ last' = Call("addFolder", "ignored")
              /\ UNCHANGED <<files, heap>>
         ELSE LET ref == FreshRef(heap)
                  f == MapSet(files, folderName, ref)
              IN  /\ Len(f) <= MaxEntries
                  /\ files' = f
                  /\ heap' = Collect([i \in DOMAIN heap \cup {ref} |->
                                        IF i = ref THEN folderRecordOf(folderName, lastModified)
                                        ELSE heap[i]], f, gens)
                  /\ last' = Call("addFolder", "added")

(***************************************************************************)
(* WorkerPool.  pool.inUse[w] is worker.inUse; wjobs[w] are the onmessage  *)
(* invocations running in worker w; outbox[w] are the messages worker w    *)
(* has posted and the main thread has not handled yet; promises[id] is the *)
(* promise runCRC32Stream returned for task id, kept while it is awaited.  *)
(***************************************************************************)
Workers == 1..NumWorkers

\* new WorkerPool(numWorkers), lines 6-109.  onerror[w] tells whether worker
\* w has its onerror handler, which onmessage installs (lines 93-97).
NewPool(numWorkers) ==
  [numWorkers |-> numWorkers,
   workers |-> [i \in 1..numWorkers |-> i],
   inUse |-> [w \in 1..numWorkers |-> FALSE],
   onerror |-> [w \in 1..numWorkers |-> FALSE],
   taskQueue |-> <<>>,
   taskResolvers |-> {},
   nextTaskId |-> 0]

InitPool == NewPool(NumWorkers)

\* A chunk size as the caller of generateZipStream may give it: the number
\* of the default (line 536), or a value postMessage cannot clone.
ChunkSize(type, value) == [type |-> type, value |-> value]

chunkSizeForCRC == ChunkSize("number", 1024 * 1024)

\* Whether worker.postMessage(message) returns; it throws a DataCloneError
\* for a message that holds a function.
Cloneable(message) == message.chunkSize.type # "function"

\* _processQueue: the pool afterwards and the message posted, if any.
ProcessQueue(p) ==
  LET free == {i \in 1..Len(p.workers) : ~p.inUse[p.workers[i]]}
  IN  IF p.taskQueue = <<>> \/ free = {}
      THEN [pool |-> p, post |-> <<>>]
      ELSE LET freeWorker == p.workers[CHOOSE i \in free : \A j \in free : i <= j]
               task == Head(p.taskQueue)
           IN  IF Cloneable(task.message)
               THEN [pool |-> [p EXCEPT !.taskQueue = Tail(p.taskQueue),
                                        !.inUse[freeWorker] = TRUE],
                     post |-> <<[worker |-> freeWorker, message |-> task.message]>>]
               \* the catch (lines 121-125): worker free again, task back in front
               ELSE [pool |-> [p EXCEPT !.taskQueue = <<task>> \o Tail(p.taskQueue),
                                        !.inUse[freeWorker] = FALSE],
                     post |-> <<>>]

\* runCRC32Stream, up to the return of the promise.
RunCRC32Stream(p, blob, chunkSize) ==
  LET id == p.nextTaskId
      message == [type |-> "calculateCRC32Stream", id |-> id, blob |-> blob,
                  chunkSize |-> chunkSize]
  IN  ProcessQueue([p EXCEPT !.nextTaskId = id + 1,
                             !.taskResolvers = @ \cup {id},
                             !.taskQueue = Append(@, [message |-> message])])

\* The worker receives the posted message and starts its onmessage handler.
Deliver(wj, post) ==
  IF post = <<>> THEN wj
  ELSE [wj EXCEPT ![post[1].worker] =
          Append(@, [id |-> post[1].message.id,
                     blob |-> post[1].message.blob,
                     crc |-> MAX32,
                     reader |-> NewReader(post[1].message.blob)])]

RemoveAt(seq, i) == SubSeq(seq, 1, i - 1) \o SubSeq(seq, i + 1, Len(seq))

\* One turn of the worker's read loop: a chunk is folded into the register,
\* or the stream is done and the result is posted.
WorkerRead(w, j) ==
  /\ j \in 1..Len(wjobs[w])
  /\ LET job == wjobs[w][j]
         choices == ReadChoices(job.blob, job.reader)
     IN  IF choices = {}
         THEN /\ wjobs' = [wjobs EXCEPT ![w] = RemoveAt(@, j)]
              /\ outbox' = [outbox EXCEPT ![w] =
                   Append(@, [type |-> "crc32StreamResult", id |-> job.id,
                              crc32 |-> workerResult(job.crc)])]
         ELSE /\ \E value \in choices :
                   wjobs' = [wjobs EXCEPT ![w][j] =
                     [job EXCEPT !.crc = workerChunk(job.crc, value),
                                 !.reader = Advance(job.reader, value)]]
              /\ UNCHANGED outbox
  /\ UNCHANGED <<files, heap, gens, pool, promises, last, filesAtCall>>

\* reader.read() rejects in the worker: the catch posts crc32Error.
WorkerReadError(w, j) ==
  /\ j \in 1..Len(wjobs[w])
  /\ wjobs' = [wjobs EXCEPT ![w] = RemoveAt(@, j)]
  /\ outbox' = [outbox EXCEPT ![w] =
       Append(@, [type |-> "crc32Error", id |-> wjobs[w][j].id, crc32 |-> WZero])]
  /\ UNCHANGED <<files, heap, gens, pool, promises, last, filesAtCall>>

\* The promise runCRC32Stream returns (line 143); blob is the Blob of its
\* task, which the executor holds in the message.
NewPromise(blob) == [state |-> "pending", value |-> WZero, blob |-> blob]

\* Mutant of Settle: the report settles the oldest registered task.
SettleOldest(ps, taskResolvers, data) ==
  IF taskResolvers = {} THEN ps
  ELSE LET id == CHOOSE i \in taskResolvers : \A j \in taskResolvers : i <= j
       IN  IF data.type = "crc32StreamResult"
           THEN [ps EXCEPT ![id].state = "resolved", ![id].value = data.crc32]
           ELSE [ps EXCEPT ![id].state = "rejected"]

\* Lines 77-91: the report settles the promise registered under its id.
Settle(ps, taskResolvers, data) ==
  IF data.id \notin taskResolvers THEN ps
  ELSE IF data.type = "crc32StreamResult"
  THEN [ps EXCEPT ![data.id].state = "resolved", ![data.id].value = data.crc32]
  ELSE [ps EXCEPT ![data.id].state = "rejected"]

\* Mutant of Release: the worker stays marked as in use.
ReleaseNothing(p, w) == p

\* worker.inUse = false (lines 95, 103).
Release(p, w) == [p EXCEPT !.inUse[w] = FALSE]

\* worker.onmessage on the main thread, for the oldest message of worker w.
OnMessage(w) ==
  /\ MainIdle
  /\ outbox[w] # <<>>
  /\ Head(outbox[w]).type # "error"
  /\ LET data == Head(outbox[w])
         p1 == [pool EXCEPT !.taskResolvers = @ \ {data.id}, !.onerror[w] = TRUE]
         r == ProcessQueue(Release(p1, w))
     IN  /\ promises' = Settle(promises, pool.taskResolvers, data)
         /\ pool' = r.pool
         /\ wjobs' = Deliver(wjobs, r.post)
         /\ outbox' = [outbox EXCEPT ![w] = Tail(@)]
  /\ UNCHANGED <<files, heap, gens, last, filesAtCall>>

(***************************************************************************)
(* generateZipStream.  The ReadableStream constructor calls start() at     *)
(* once, so the call runs the encoder up to its first await.               *)
(***************************************************************************)
InitGen ==
  [pc |-> "none",
   clearAfterGenerate |-> TRUE,
   fileRecords |-> <<>>,
   idx |-> 1,
   centralDirectoryEntries |-> <<>>,
   currentOffset |-> WZero,
   totalUncompressedSize |-> WZero,
   processedSize |-> WZero,
   fileBytesProcessed |-> WZero,
   centralDirOffset |-> WZero,
   centralDirSize |-> WZero,
   taskId |-> -1,
   reader |-> [pos |-> 0, zerosLeft |-> WZero],
   out |-> <<>>,
   error |-> "",
   onProgress |-> Null,
   reports |-> <<>>,
   taken |-> 0,
   cancelled |-> FALSE]

(***************************************************************************)
(* The body of start() as steps on the record of one generation.  A throw  *)
(* inside the try lands in the catch (lines 645-648): pc "errored"; the    *)
(* steps that follow a throw in the same segment are skipped.              *)
(***************************************************************************)
Thrown(gen) == gen.pc = "errored"

\* Mutant of Throw: the error is noted and the steps go on.
ThrowAndGoOn(gen, why) == [gen EXCEPT !.error = why]

Throw(gen, why) == [gen EXCEPT !.pc = "errored", !.error = why]

\* What follows in the try block, unless an earlier step has thrown.
Then(gen, next) == IF Thrown(gen) THEN gen ELSE next

\* controller.enqueue: a TypeError once the consumer has cancelled the stream.
enqueue(gen, chunk) ==
  IF Thrown(gen) THEN gen
  ELSE IF gen.cancelled THEN Throw(gen, "enqueue")
  ELSE [gen EXCEPT !.out = Append(@, chunk)]

WMul(a, k) == <<a[1] * k + ((a[2] * k) \div Half), (a[2] * k) % Half>>

\* Number(processed * 100n / totalUncompressedSize), for processed <= total.
PercentOf(processed, total) ==
  CHOOSE q \in 0..100 :
    /\ ~WLt(WMul(processed, 100), WMul(total, q))
    /\ (q = 100 \/ WLt(WMul(processed, 100), WMul(total, q + 1)))

\* Mutant of overallPercent: a total of zero is reported as 0.
overallPercentZeroTotal(processed, totalUncompressedSize) ==
  IF WLt(WZero, totalUncompressedSize)
  THEN PercentOf(processed, totalUncompressedSize)
  ELSE 0

\* Lines 653-660 of updateProgress.
overallPercent(processed, totalUncompressedSize) ==
  IF WLt(WZero, totalUncompressedSize)
  THEN LET q == PercentOf(processed, totalUncompressedSize)
       IN  IF q < 100 THEN q ELSE 100
  ELSE 100

\* updateProgress (lines 651-667): the callback, if any, gets the entry's
\* name, its bytes sent and its size, and the overall percentage; it returns
\* or throws.
updateProgress(gen, record, fileProcessed, fileTotal, throws) ==
  IF Thrown(gen) \/ gen.onProgress = Null THEN gen
  ELSE IF throws THEN Throw(gen, "onProgress")
  ELSE [gen EXCEPT !.reports =
          Append(@, [filename |-> record.name,
                     fileBytesProcessed |-> fileProcessed,
                     fileTotalBytes |-> fileTotal,
                     overallProgressPercent |->
                       overallPercent(gen.processedSize, gen.totalUncompressedSize)])]

\* The entry the for loop is at.
Ref(g) == gens[g].fileRecords[gens[g].idx]

\* Mutant of LoopPc: the loop stops one entry early.
LoopPcOffByOne(idx, n) == IF idx < n THEN "crc" ELSE "cd"

LoopPc(idx, n) == IF idx <= n THEN "crc" ELSE "cd"

\* Checksum tasks this call will submit.
PendingCrc(f) ==
  {i \in 1..Len(f) : heap[f[i].ref].crc32 = Null /\ heap[f[i].ref].content.type = "Blob"}

GenerateZipStream(g, clearAfterGenerate, onProgress) ==
  /\ MainIdle
  /\ gens[g].pc = "none"
  /\ pool.nextTaskId + Cardinality(PendingCrc(files)) <= MaxTasks
  /\ LET fileRecords == Values(files)
     IN  gens' = [gens EXCEPT ![g] =
           [InitGen EXCEPT !.pc = LoopPc(1, Len(fileRecords)),
                           !.clearAfterGenerate = clearAfterGenerate,
                           !.onProgress = onProgress,
                           !.fileRecords = fileRecords,
                           !.totalUncompressedSize =
                              WSum([i \in 1..Len(fileRecords) |-> heap[fileRecords[i]].size])]]
  /\ filesAtCall' = [filesAtCall EXCEPT ![g] = files]
  /\ last' = Call("generateZipStream", "returned")
  /\ UNCHANGED <<files, heap, pool, promises, wjobs, outbox>>

\* Mutant of GenCrc: the checksum is requested and not awaited.
GenCrcNoAwait(g) ==
  /\ gens[g].pc = "crc"
  /\ LET fileRecord == heap[Ref(g)]
     IN  IF fileRecord.crc32 = Null /\ fileRecord.content.type = "Blob"
         THEN LET r == RunCRC32Stream(pool, fileRecord.content, chunkSizeForCRC)
              IN  /\ pool' = r.pool
                  /\ wjobs' = Deliver(wjobs, r.post)
                  /\ promises' = [i \in DOMAIN promises \cup {pool.nextTaskId} |->
                                    IF i = pool.nextTaskId
                                    THEN NewPromise(fileRecord.content)
                                    ELSE promises[i]]
                  /\ gens' = [gens EXCEPT ![g].pc = "header", ![g].taskId = pool.nextTaskId]
         ELSE /\ gens' = [gens EXCEPT ![g].pc = "header"]
              /\ UNCHANGED <<pool, wjobs, promises>>
  /\ UNCHANGED <<files, heap, outbox, last, filesAtCall>>

\* Lines 555-565: take the checksum, from the pool if it is not known yet.
GenCrc(g) ==
  /\ gens[g].pc = "crc"
  /\ LET fileRecord == heap[Ref(g)]
     IN  IF fileRecord.crc32 = Null /\ fileRecord.content.type = "Blob"
         THEN LET r == RunCRC32Stream(pool, fileRecord.content, chunkSizeForCRC)
              IN  /\ pool' = r.pool
                  /\ wjobs' = Deliver(wjobs, r.post)
                  /\ promises' = [i \in DOMAIN promises \cup {pool.nextTaskId} |->
                                    IF i = pool.nextTaskId
                                    THEN NewPromise(fileRecord.content)
                                    ELSE promises[i]]
                  /\ gens' = [gens EXCEPT ![g].pc = "awaitCRC", ![g].taskId = pool.nextTaskId]
                  /\ UNCHANGED heap
         ELSE /\ heap' = IF fileRecord.isDirectory
                         THEN [heap EXCEPT ![Ref(g)].crc32 = WZero]
                         ELSE heap
              /\ gens' = [gens EXCEPT ![g].pc = "header"]
              /\ UNCHANGED <<pool, wjobs, promises>>
  /\ UNCHANGED <<files, outbox, last, filesAtCall>>

\* Mutant of GenResume: the checksum awaited is not stored in the entry.
GenResumeForgets(g) ==
  /\ ~Running
  /\ Settled(g)
  /\ LET promise == promises[gens[g].taskId]
     IN  IF promise.state = "resolved"
         THEN gens' = [gens EXCEPT ![g].pc = "header"]
         ELSE gens' = [gens EXCEPT ![g].pc = "errored", ![g].error = "crc32"]
  /\ promises' = [i \in DOMAIN promises \ {gens[g].taskId} |-> promises[i]]
  /\ UNCHANGED <<files, heap, pool, wjobs, outbox, last, filesAtCall>>

\* The await of runCRC32Stream returns or throws (lines 558-562).
GenResume(g) ==
  /\ ~Running
  /\ Settled(g)
  /\ LET promise == promises[gens[g].taskId]
     IN  IF promise.state = "resolved"
         THEN /\ heap' = [heap EXCEPT ![Ref(g)].crc32 = promise.value]
              /\ gens' = [gens EXCEPT ![g].pc = "header"]
         ELSE /\ gens' = [gens EXCEPT ![g].pc = "errored", ![g].error = "crc32"]
              /\ UNCHANGED heap
  /\ promises' = [i \in DOMAIN promises \ {gens[g].taskId} |-> promises[i]]
  /\ UNCHANGED <<files, pool, wjobs, outbox, last, filesAtCall>>

\* Mutant of GenHeader: the offset is kept in 32 bits.
GenHeader32(g) ==
  /\ gens[g].pc = "header"
  /\ heap' = [heap EXCEPT ![Ref(g)].localHeaderOffset = U32(gens[g].currentOffset)]
  /\ LET localHeader == createLocalFileHeader(heap'[Ref(g)])
         sent == enqueue(gens[g], localHeader)
     IN  gens' = [gens EXCEPT ![g] =
           Then(sent, [sent EXCEPT !.currentOffset = WAdd(@, W(localHeader.byteLength)),
                                   !.pc = "content"])]
  /\ UNCHANGED <<files, pool, promises, wjobs, outbox, last, filesAtCall>>

\* Mutant of GenHeader: the cursor advances by the header without its extra field.
GenHeaderShortAdvance(g) ==
  /\ gens[g].pc = "header"
  /\ heap' = [heap EXCEPT ![Ref(g)].localHeaderOffset = gens[g].currentOffset]
  /\ LET localHeader == createLocalFileHeader(heap'[Ref(g)])
         sent == enqueue(gens[g], localHeader)
     IN  gens' = [gens EXCEPT ![g] =
           Then(sent, [sent EXCEPT !.currentOffset = WAdd(@, W(30 + Len(localHeader.name))),
                                   !.pc = "content"])]
  /\ UNCHANGED <<files, pool, promises, wjobs, outbox, last, filesAtCall>>

\* Lines 567-573: record the offset, emit the local header.
GenHeader(g) ==
  /\ gens[g].pc = "header"
  /\ heap' = [heap EXCEPT ![Ref(g)].localHeaderOffset = gens[g].currentOffset]
  /\ LET localHeader == createLocalFileHeader(heap'[Ref(g)])
         sent == enqueue(gens[g], localHeader)
     IN  gens' = [gens EXCEPT ![g] =
           Then(sent, [sent EXCEPT !.currentOffset = WAdd(@, W(localHeader.byteLength)),
                                   !.pc = "content"])]
  /\ UNCHANGED <<files, pool, promises, wjobs, outbox, last, filesAtCall>>

\* Mutant of GenContent: content is sent for every file, whatever its size.
GenContentAnySize(g) ==
  /\ gens[g].pc = "content"
  /\ \E before, after \in BOOLEAN :
       LET fileRecord == heap[Ref(g)]
       IN  IF ~fileRecord.isDirectory
           THEN LET first == updateProgress([gens[g] EXCEPT !.fileBytesProcessed = WZero],
                                             fileRecord, WZero, fileRecord.size, before)
                IN  IF fileRecord.content.type = "Blob"
                    THEN gens' = [gens EXCEPT ![g] =
                           Then(first, [first EXCEPT !.reader = NewReader(fileRecord.content),
                                                     !.pc = "awaitRead"])]
                    ELSE LET chunkLen == ContentSize(fileRecord.content)
                             sent == enqueue(first, DataChunk(fileRecord.content))
                             counted == Then(sent, [sent EXCEPT
                                          !.currentOffset = WAdd(@, chunkLen),
                                          !.processedSize = WAdd(@, chunkLen),
                                          !.fileBytesProcessed = chunkLen])
                             second == updateProgress(counted, fileRecord,
                                                      counted.fileBytesProcessed,
                                                      fileRecord.size, after)
                         IN  gens' = [gens EXCEPT ![g] =
                               Then(second, [second EXCEPT !.pc = "central"])]
           ELSE LET only == updateProgress(gens[g], fileRecord, WZero, WZero, before)
                IN  gens' = [gens EXCEPT ![g] = Then(only, [only EXCEPT !.pc = "central"])]
  /\ UNCHANGED <<files, heap, pool, promises, wjobs, outbox, last, filesAtCall>>

\* Lines 576-610: the content, at once for a Uint8Array, by reads for a Blob.
GenContent(g) ==
  /\ gens[g].pc = "content"
  /\ \E before, after \in BOOLEAN :
       LET fileRecord == heap[Ref(g)]
       IN  IF ~fileRecord.isDirectory /\ WLt(WZero, fileRecord.size)
           THEN LET first == updateProgress([gens[g] EXCEPT !.fileBytesProcessed = WZero],
                                             fileRecord, WZero, fileRecord.size, before)
                IN  IF fileRecord.content.type = "Blob"
                    THEN gens' = [gens EXCEPT ![g] =
                           Then(first, [first EXCEPT !.reader = NewReader(fileRecord.content),
                                                     !.pc = "awaitRead"])]
                    ELSE LET chunkLen == ContentSize(fileRecord.content)
                             sent == enqueue(first, DataChunk(fileRecord.content))
                             counted == Then(sent, [sent EXCEPT
                                          !.currentOffset = WAdd(@, chunkLen),
                                          !.processedSize = WAdd(@, chunkLen),
                                          !.fileBytesProcessed = chunkLen])
                             second == updateProgress(counted, fileRecord,
                                                      counted.fileBytesProcessed,
                                                      fileRecord.size, after)
                         IN  gens' = [gens EXCEPT ![g] =
                               Then(second, [second EXCEPT !.pc = "central"])]
           ELSE LET only == updateProgress(gens[g], fileRecord, WZero, WZero, before)
                IN  gens' = [gens EXCEPT ![g] = Then(only, [only EXCEPT !.pc = "central"])]
  /\ UNCHANGED <<files, heap, pool, promises, wjobs, outbox, last, filesAtCall>>

\* Lines 585-595: one reader.read() of the content pass.
GenRead(g) ==
  /\ ~Running
  /\ gens[g].pc = "awaitRead"
  /\ LET choices == ReadChoices(heap[Ref(g)].content, gens[g].reader)
     IN  IF choices = {}
         THEN gens' = [gens EXCEPT ![g].pc = "central"]
         ELSE \E value \in choices, throws \in BOOLEAN :
                LET chunkLen == ChunkLen(value)
                    sent == enqueue(gens[g], DataChunk(value))
                    counted == Then(sent, [sent EXCEPT
                                 !.currentOffset = WAdd(@, chunkLen),
                                 !.processedSize = WAdd(@, chunkLen),
                                 !.fileBytesProcessed = WAdd(@, chunkLen),
                                 !.reader = Advance(@, value)])
                IN  gens' = [gens EXCEPT ![g] =
                      updateProgress(counted, heap[Ref(g)], counted.fileBytesProcessed,
                                     heap[Ref(g)].size, throws)]
  /\ UNCHANGED <<files, heap, pool, promises, wjobs, outbox, last, filesAtCall>>

\* Mutant of GenReadError: the error path empties the registry as well.
GenReadErrorClears(g) ==
  /\ ~Running
  /\ gens[g].pc = "awaitRead"
  /\ gens' = [gens EXCEPT ![g].pc = "errored", ![g].error = "read"]
  /\ files' = <<>>
  /\ heap' = Collect(heap, files', gens')
  /\ UNCHANGED <<pool, promises, wjobs, outbox, last, filesAtCall>>

\* reader.read() rejects: the catch of start() puts the stream in error.
GenReadError(g) ==
  /\ ~Running
  /\ gens[g].pc = "awaitRead"
  /\ gens' = [gens EXCEPT ![g].pc = "errored", ![g].error = "read"]
  /\ UNCHANGED <<files, heap, pool, promises, wjobs, outbox, last, filesAtCall>>

\* Mutant of GenCentral: the central record is also enqueued on the spot.
GenCentralInline(g) ==
  /\ gens[g].pc = "central"
  /\ gens' = [gens EXCEPT
       ![g].centralDirectoryEntries = Append(@, createCentralDirectoryHeader(heap[Ref(g)])),
       ![g].out = Append(@, createCentralDirectoryHeader(heap[Ref(g)])),
       ![g].idx = @ + 1,
       ![g].pc = LoopPc(gens[g].idx + 1, Len(gens[g].fileRecords))]
  /\ UNCHANGED <<files, heap, pool, promises, wjobs, outbox, last, filesAtCall>>

\* Lines 612-615: the central-directory record, and on to the next entry.
GenCentral(g) ==
  /\ gens[g].pc = "central"
  /\ gens' = [gens EXCEPT
       ![g].centralDirectoryEntries = Append(@, createCentralDirectoryHeader(heap[Ref(g)])),
       ![g].idx = @ + 1,
       ![g].pc = LoopPc(gens[g].idx + 1, Len(gens[g].fileRecords))]
  /\ UNCHANGED <<files, heap, pool, promises, wjobs, outbox, last, filesAtCall>>

\* Lines 617-625: the central directory.
GenCentralDirectory(g) ==
  /\ gens[g].pc = "cd"
  /\ LET entries == gens[g].centralDirectoryEntries
         centralDirSize == TotalLength(entries)
         opened == [gens[g] EXCEPT !.centralDirOffset = gens[g].currentOffset]
     IN  gens' = [gens EXCEPT ![g] =
           IF entries # <<>> /\ opened.cancelled
           THEN Throw(opened, "enqueue")
           ELSE [opened EXCEPT !.out = @ \o entries,
                               !.centralDirSize = centralDirSize,
                               !.currentOffset = WAdd(@, centralDirSize),
                               !.pc = "end"]]
  /\ UNCHANGED <<files, heap, pool, promises, wjobs, outbox, last, filesAtCall>>

\* Mutant of GenEndRecords: the cursor is passed as the directory's offset.
GenEndRecordsFromCursor(g) ==
  /\ gens[g].pc = "end"
  /\ gens' = [gens EXCEPT ![g] =
       IF gens[g].cancelled
       THEN Throw(gens[g], "enqueue")
       ELSE [gens[g] EXCEPT
              !.out = @ \o createEndRecords(gens[g].currentOffset, gens[g].centralDirSize,
                                            Len(gens[g].fileRecords)),
              !.pc = "clear"]]
  /\ UNCHANGED <<files, heap, pool, promises, wjobs, outbox, last, filesAtCall>>

\* Lines 627-636: the end records.
GenEndRecords(g) ==
  /\ gens[g].pc = "end"
  /\ gens' = [gens EXCEPT ![g] =
       IF gens[g].cancelled
       THEN Throw(gens[g], "enqueue")
       ELSE [gens[g] EXCEPT
              !.out = @ \o createEndRecords(gens[g].centralDirOffset, gens[g].centralDirSize,
                                            Len(gens[g].fileRecords)),
              !.pc = "clear"]]
  /\ UNCHANGED <<files, heap, pool, promises, wjobs, outbox, last, filesAtCall>>

\* Mutant of clearFiles: the registry is emptied whatever the option says.
clearFilesAlways(f, clearAfterGenerate) == <<>>

\* The registry after line 639-641.
clearFiles(f, clearAfterGenerate) == IF clearAfterGenerate THEN <<>> ELSE f

\* Lines 638-643: the optional clear, then controller.close(), which throws
\* on a stream the consumer has cancelled.
GenClose(g) ==
  /\ gens[g].pc = "clear"
  /\ gens' = [gens EXCEPT ![g] =
       IF gens[g].cancelled THEN Throw(gens[g], "close") ELSE [gens[g] EXCEPT !.pc = "closed"]]
  /\ files' = clearFiles(files, gens[g].clearAfterGenerate)
  /\ heap' = Collect(heap, files', gens')
  /\ UNCHANGED <<pool, promises, wjobs, outbox, last, filesAtCall>>

\* The consumer is done with a stream that has closed or failed and drops it.
ReleaseStream(g) ==
  /\ MainIdle
  /\ gens[g].pc \in {"closed", "errored"}
  /\ gens' = [gens EXCEPT ![g] = InitGen]
  /\ filesAtCall' = [filesAtCall EXCEPT ![g] = <<>>]
  /\ heap' = Collect(heap, files, gens')
  /\ UNCHANGED <<files, pool, promises, wjobs, outbox, last>>

(***************************************************************************)
(* The consumer of the stream generateZipStream returned.  The stream is   *)
(* built from start() alone (line 549): its queue holds every chunk that   *)
(* was enqueued and not read yet, out[taken + 1 .. Len(out)].              *)
(***************************************************************************)
\* reader.read() takes the oldest queued chunk; an errored stream gives none.
ConsumerRead(g) ==
  /\ MainIdle
  /\ gens[g].pc \notin {"none", "errored"}
  /\ ~gens[g].cancelled
  /\ gens[g].taken < Len(gens[g].out)
  /\ gens' = [gens EXCEPT ![g].taken = @ + 1]
  /\ UNCHANGED <<files, heap, pool, promises, wjobs, outbox, last, filesAtCall>>

\* stream.cancel() before the consumer has received the whole output.
ConsumerCancel(g) ==
  /\ MainIdle
  /\ gens[g].pc \notin {"none", "errored"}
  /\ ~gens[g].cancelled
  /\ ~(gens[g].pc = "closed" /\ gens[g].taken = Len(gens[g].out))
  /\ gens' = [gens EXCEPT ![g].cancelled = TRUE]
  /\ UNCHANGED <<files, heap, pool, promises, wjobs, outbox, last, filesAtCall>>

\* WorkerPool.terminate (lines 153-158): the workers are stopped, with what
\* they were doing and what they had posted.
\* Mutant of terminate: the queue and the resolvers are kept.
terminateWorkersOnly(p) == [p EXCEPT !.workers = <<>>]

terminate(p) == [p EXCEPT !.workers = <<>>, !.taskQueue = <<>>, !.taskResolvers = {}]

\* BrowserZip.terminate (lines 714-716).
Terminate ==
  /\ MainIdle
  /\ pool.workers # <<>>
  /\ pool' = terminate(pool)
  /\ wjobs' = [w \in DOMAIN wjobs |-> <<>>]
  /\ outbox' = [w \in DOMAIN outbox |-> <<>>]
  /\ UNCHANGED <<files, heap, gens, promises, last, filesAtCall>>

(***************************************************************************)
(* The specification.  The caller keeps the discipline the library asks    *)
(* for: it registers entries and starts a generation only while no stream  *)
(* of an earlier generation is live.                                       *)
(***************************************************************************)
Init ==
  /\ files = <<>>
  /\ heap = <<>>
  /\ gens = [g \in GenIds |-> InitGen]
  /\ pool = InitPool
  /\ promises = <<>>
  /\ wjobs = [w \in Workers |-> <<>>]
  /\ outbox = [w \in Workers |-> <<>>]
  /\ last = Call("none", "")
  /\ filesAtCall = [g \in GenIds |-> <<>>]

Quiet == \A g \in DOMAIN gens : gens[g].pc = "none"

Next ==
  \/ \E name \in NameInputs, content \in ContentInputs, lastModified \in DateInputs :
       Quiet /\ AddFile(name, content, lastModified)
  \/ \E name \in NameInputs, lastModified \in DateInputs :
       Quiet /\ AddFolder(name, lastModified)
  \/ \E g \in GenIds, clearAfterGenerate \in BOOLEAN :
       Quiet /\ GenerateZipStream(g, clearAfterGenerate, Null)
  \/ \E g \in GenIds : GenCrc(g)
  \/ \E g \in GenIds : GenResume(g)
  \/ \E g \in GenIds : GenHeader(g)
  \/ \E g \in GenIds : GenContent(g)
  \/ \E g \in GenIds : GenRead(g)
  \/ \E g \in GenIds : GenReadError(g)
  \/ \E g \in GenIds : GenCentral(g)
  \/ \E g \in GenIds : GenCentralDirectory(g)
  \/ \E g \in GenIds : GenEndRecords(g)
  \/ \E g \in GenIds : GenClose(g)
  \/ \E g \in GenIds : ReleaseStream(g)
  \/ \E w \in Workers : \E j \in 1..Len(wjobs[w]) : WorkerRead(w, j)
  \/ \E w \in Workers : \E j \in 1..Len(wjobs[w]) : WorkerReadError(w, j)
  \/ \E w \in Workers : OnMessage(w)

Spec == Init /\ [][Next]_vars

(***************************************************************************)
(* The same caller with a consumer that reads and may cancel, a progress   *)
(* callback, and terminate().                                              *)
(***************************************************************************)
\* A callback that reports and may throw; Null is no callback.
ProgressInputs == {<<"callback">>}

\* The names the caller of this specification registers: a file and a folder.
StreamNames == {<<233>>, <<233, 47>>}

StreamNext ==
  \/ \E name \in StreamNames, content \in ContentInputs, lastModified \in DateInputs :
       Quiet /\ AddFile(name, content, lastModified)
  \/ \E name \in StreamNames, lastModified \in DateInputs :
       Quiet /\ AddFolder(name, lastModified)
  \/ \E g \in GenIds, clearAfterGenerate \in BOOLEAN, onProgress \in {Null} \cup ProgressInputs :
       Quiet /\ GenerateZipStream(g, clearAfterGenerate, onProgress)
  \/ \E g \in GenIds : GenCrc(g)
  \/ \E g \in GenIds : GenResume(g)
  \/ \E g \in GenIds : GenHeader(g)
  \/ \E g \in GenIds : GenContent(g)
  \/ \E g \in GenIds : GenRead(g)
  \/ \E g \in GenIds : GenReadError(g)
  \/ \E g \in GenIds : GenCentral(g)
  \/ \E g \in GenIds : GenCentralDirectory(g)
  \/ \E g \in GenIds : GenEndRecords(g)
  \/ \E g \in GenIds : GenClose(g)
  \/ \E g \in GenIds : ReleaseStream(g)
  \/ \E w \in Workers : \E j \in 1..Len(wjobs[w]) : WorkerRead(w, j)
  \/ \E w \in Workers : \E j \in 1..Len(wjobs[w]) : WorkerReadError(w, j)
  \/ \E w \in Workers : OnMessage(w)
  \/ \E g \in GenIds : ConsumerRead(g)
  \/ \E g \in GenIds : ConsumerCancel(g)
  \/ Terminate

StreamSpec == Init /\ [][StreamNext]_vars

(***************************************************************************)
(* The worker pool on its own: callers submit checksum tasks while others  *)
(* are in flight, as overlapping generations do; a worker may raise an     *)
(* error event; a message may be one postMessage cannot clone.  The pool   *)
(* is the one the BrowserZip constructor builds for the platform at hand.  *)
(***************************************************************************)
PoolTasks == 3

\* navigator.hardwareConcurrency; Absent is undefined.
Absent == 0

HardwareConcurrencyInputs == {Absent, 1, 2, 8}

\* Line 203: Math.min(6, navigator.hardwareConcurrency || 2).
numWorkers(hardwareConcurrency) ==
  LET wanted == IF hardwareConcurrency = Absent THEN 2 ELSE hardwareConcurrency
  IN  IF 6 < wanted THEN 6 ELSE wanted

TinyBlob == Content("Blob", <<97>>, WZero)

PoolBlobs == {TinyBlob, SmallBlob}

ChunkSizeInputs == {chunkSizeForCRC, ChunkSize("function", 0)}

\* A caller awaits runCRC32Stream(blob, chunkSize).
Submit(blob, chunkSize) ==
  /\ pool.nextTaskId < PoolTasks
  /\ LET r == RunCRC32Stream(pool, blob, chunkSize)
     IN  /\ pool' = r.pool
         /\ wjobs' = Deliver(wjobs, r.post)
  /\ promises' = [i \in DOMAIN promises \cup {pool.nextTaskId} |->
                    IF i = pool.nextTaskId THEN NewPromise(blob) ELSE promises[i]]
  /\ UNCHANGED <<files, heap, gens, outbox, last, filesAtCall>>

\* Worker w fails while it runs a task: no message is posted, the Worker
\* object on the main thread gets an error event.
WorkerFault(w, j) ==
  /\ j \in 1..Len(wjobs[w])
  /\ wjobs' = [wjobs EXCEPT ![w] = RemoveAt(@, j)]
  /\ outbox' = [outbox EXCEPT ![w] =
       Append(@, [type |-> "error", id |-> wjobs[w][j].id, crc32 |-> WZero])]
  /\ UNCHANGED <<files, heap, gens, pool, promises, last, filesAtCall>>

\* The error event on the main thread: worker.onerror (lines 93-97) if
\* onmessage has installed it, nothing otherwise.
OnError(w) ==
  /\ MainIdle
  /\ outbox[w] # <<>>
  /\ Head(outbox[w]).type = "error"
  /\ LET r == IF pool.onerror[w] THEN ProcessQueue(Release(pool, w))
              ELSE [pool |-> pool, post |-> <<>>]
     IN  /\ pool' = r.pool
         /\ wjobs' = Deliver(wjobs, r.post)
  /\ outbox' = [outbox EXCEPT ![w] = Tail(@)]
  /\ UNCHANGED <<files, heap, gens, promises, last, filesAtCall>>

PoolInit ==
  /\ files = <<>>
  /\ heap = <<>>
  /\ gens = [g \in GenIds |-> InitGen]
  /\ \E hardwareConcurrency \in HardwareConcurrencyInputs :
       /\ pool = NewPool(numWorkers(hardwareConcurrency))
       /\ wjobs = [w \in 1..numWorkers(hardwareConcurrency) |-> <<>>]
       /\ outbox = [w \in 1..numWorkers(hardwareConcurrency) |-> <<>>]
  /\ promises = <<>>
  /\ last = Call("none", "")
  /\ filesAtCall = [g \in GenIds |-> <<>>]

PoolNext ==
  \/ \E blob \in PoolBlobs, chunkSize \in ChunkSizeInputs : Submit(blob, chunkSize)
  \/ \E w \in DOMAIN wjobs : \E j \in 1..Len(wjobs[w]) : WorkerRead(w, j)
  \/ \E w \in DOMAIN wjobs : \E j \in 1..Len(wjobs[w]) : WorkerReadError(w, j)
  \/ \E w \in DOMAIN wjobs : \E j \in 1..Len(wjobs[w]) : WorkerFault(w, j)
  \/ \E w \in DOMAIN outbox : OnMessage(w)
  \/ \E w \in DOMAIN outbox : OnError(w)

PoolSpec == PoolInit /\ [][PoolNext]_vars

\* Workers keep making progress and the main thread runs the handlers of
\* the events it has received.
PoolLive ==
  /\ PoolSpec
  /\ WF_vars(\E w \in DOMAIN wjobs : \E j \in 1..Len(wjobs[w]) : WorkerRead(w, j))
  /\ WF_vars(\E w \in DOMAIN outbox : OnMessage(w))
  /\ WF_vars(\E w \in DOMAIN outbox : OnError(w))

(***************************************************************************)
(* The two flows of src/script.js: the click handler of the zip button     *)
(* (lines 9-41) and the example run at start-up (lines 93-119).  Each      *)
(* builds its own BrowserZip, registers entries, awaits downloadZip and    *)
(* then calls terminate().  `last` tells where the flow is: at its         *)
(* registrations, inside downloadZip (generateZipStream has returned and   *)
(* response.blob() is awaited), past downloadZip, or past terminate().     *)
(***************************************************************************)
\* What the flows register: the Files of the input, a string, a Blob.
UiContents == {Content("string", <<233>>, WZero), SmallBlob, BigBlob}

\* downloadZip up to the await of line 688, called with onProgress set.
UiDownloadZip(g) ==
  /\ last.op \in {"addFile", "addFolder"}
  /\ Quiet
  /\ \E onProgress \in ProgressInputs : GenerateZipStream(g, TRUE, onProgress)

\* Mutant of blobResolved: downloadZip goes on without the whole output.
blobResolvedAtOnce(gen) == TRUE

\* `await response.blob()` (line 688) returns once the Response has read the
\* whole output and found the stream closed.
blobResolved(gen) == gen.pc = "closed" /\ gen.taken = Len(gen.out)

\* Lines 689-696, and the return of downloadZip to the flow.
UiDownloaded(g) ==
  /\ MainIdle
  /\ last = Call("generateZipStream", "returned")
  /\ blobResolved(gens[g])
  /\ last' = Call("downloadZip", "returned")
  /\ UNCHANGED <<files, heap, gens, pool, promises, wjobs, outbox, filesAtCall>>

\* response.blob() rejects on a stream in error: the catch of downloadZip
\* (697-708), whose line 702 reads zipStream outside the block that declares
\* it, so that downloadZip throws and the flow ends there.
UiDownloadFailed(g) ==
  /\ MainIdle
  /\ last = Call("generateZipStream", "returned")
  /\ gens[g].pc = "errored"
  /\ last' = Call("downloadZip", "thrown")
  /\ UNCHANGED <<files, heap, gens, pool, promises, wjobs, outbox, filesAtCall>>

\* zip.terminate(), the statement after `await zip.downloadZip(...)`
\* (script.js lines 32 and 118).
UiTerminate ==
  /\ MainIdle
  /\ last = Call("downloadZip", "returned")
  /\ pool' = terminate(pool)
  /\ wjobs' = [w \in DOMAIN wjobs |-> <<>>]
  /\ outbox' = [w \in DOMAIN outbox |-> <<>>]
  /\ last' = Call("terminate", "returned")
  /\ UNCHANGED <<files, heap, gens, promises, filesAtCall>>

UiNext ==
  \/ \E name \in StreamNames, content \in UiContents, lastModified \in DateInputs :
       last.op \in {"none", "addFile", "addFolder"} /\ AddFile(name, content, lastModified)
  \/ \E name \in StreamNames, lastModified \in DateInputs :
       last.op \in {"none", "addFile", "addFolder"} /\ AddFolder(name, lastModified)
  \/ \E g \in GenIds : UiDownloadZip(g)
  \/ \E g \in GenIds : GenCrc(g)
  \/ \E g \in GenIds : GenResume(g)
  \/ \E g \in GenIds : GenHeader(g)
  \/ \E g \in GenIds : GenContent(g)
  \/ \E g \in GenIds : GenRead(g)
  \/ \E g \in GenIds : GenReadError(g)
  \/ \E g \in GenIds : GenCentral(g)
  \/ \E g \in GenIds : GenCentralDirectory(g)
  \/ \E g \in GenIds : GenEndRecords(g)
  \/ \E g \in GenIds : GenClose(g)
  \/ \E w \in Workers : \E j \in 1..Len(wjobs[w]) : WorkerRead(w, j)
  \/ \E w \in Workers : \E j \in 1..Len(wjobs[w]) : WorkerReadError(w, j)
  \/ \E w \in Workers : OnMessage(w)
  \/ \E g \in GenIds : ConsumerRead(g)
  \/ \E g \in GenIds : UiDownloaded(g)
  \/ \E g \in GenIds : UiDownloadFailed(g)
  \/ UiTerminate

UiSpec == Init /\ [][UiNext]_vars

(***************************************************************************)
(* The checksum of one Blob, computed by a worker over the chunks its      *)
(* stream delivers.  The Blob's bytes are any sequence of up to CrcMaxLen  *)
(* bytes over CrcBytes; the stream cuts it into chunks in every way.       *)
(***************************************************************************)
CrcMaxLen == 3

CrcBytes == {0, 97, 255}

CrcBlobs ==
  {Content("Blob", data, WZero) : data \in UNION {[1..n -> CrcBytes] : n \in 0..CrcMaxLen}}

\* runCRC32Stream(blob, chunkSize) on the pool as constructed.
CrcInit ==
  /\ files = <<>>
  /\ heap = <<>>
  /\ gens = [g \in GenIds |-> InitGen]
  /\ \E blob \in CrcBlobs, chunkSize \in {chunkSizeForCRC, ChunkSize("number", 1)} :
       LET r == RunCRC32Stream(InitPool, blob, chunkSize)
       IN  /\ pool = r.pool
           /\ wjobs = Deliver([w \in Workers |-> <<>>], r.post)
           /\ promises = [id \in {InitPool.nextTaskId} |-> NewPromise(blob)]
  /\ outbox = [w \in Workers |-> <<>>]
  /\ last = Call("none", "")
  /\ filesAtCall = [g \in GenIds |-> <<>>]

CrcNext ==
  \/ \E w \in Workers : \E j \in 1..Len(wjobs[w]) : WorkerRead(w, j)
  \/ \E w \in Workers : OnMessage(w)

CrcSpec == CrcInit /\ [][CrcNext]_vars

(***************************************************************************)
(* The three record builders on their own.  createLocalFileHeader and      *)
(* createCentralDirectoryHeader get an entry record as it is at lines      *)
(* 571 and 613 (checksum known, offset recorded), createEndRecords gets    *)
(* the three numbers of line 628.  The sizes, offsets and counts lie on    *)
(* both sides of 0xFFFFFFFF and 0xFFFF.  `last` holds the arguments and    *)
(* what the calls have returned so far.                                    *)
(***************************************************************************)
\* 0xFFFFFFFE and 0x100000000.
BelowMax32 == <<Half - 1, Half - 2>>

AboveMax32 == <<Half, 0>>

SizeInputs == {WZero, W(2), BelowMax32, MAX32, AboveMax32}

OffsetInputs == {WZero, W(39), BelowMax32, MAX32, AboveMax32, WAdd(AboveMax32, W(39))}

CountInputs == {0, 2, MAX16 - 1, MAX16, MAX16 + 1}

\* A Blob of `size` zero bytes, and the CRC-32 of its bytes.
ZeroBlob(size) == Content("Blob", <<>>, size)

ZeroBlobCrc(size) ==
  CASE size = WZero -> WZero
    [] size = W(2) -> <<16857, 4863>>
    [] size = BelowMax32 -> <<3946, 28710>>
    [] size = MAX32 -> WZero
    [] size = AboveMax32 -> <<53762, 61325>>

\* The entry records the loop of generateZipStream hands to the builders.
FileRecordInputs ==
  LET registered ==
        {[fileRecordOf(<<233>>, ZeroBlob(size), lastModified)
            EXCEPT !.crc32 = ZeroBlobCrc(size)] :
           size \in SizeInputs, lastModified \in DateInputs}
        \cup {folderRecordOf(<<233, 47>>, lastModified) : lastModified \in DateInputs}
  IN  {[fileRecord EXCEPT !.localHeaderOffset = currentOffset] :
         fileRecord \in registered, currentOffset \in OffsetInputs}

Applied(op, args, result) == [op |-> op, args |-> args, result |-> result]

HeaderInit ==
  /\ files = <<>>
  /\ heap = <<>>
  /\ gens = [g \in GenIds |-> InitGen]
  /\ pool = InitPool
  /\ promises = <<>>
  /\ wjobs = [w \in Workers |-> <<>>]
  /\ outbox = [w \in Workers |-> <<>>]
  /\ filesAtCall = [g \in GenIds |-> <<>>]
  /\ \/ \E fileRecord \in FileRecordInputs : last = Applied("none", <<fileRecord>>, <<>>)
     \/ \E centralDirectoryOffset \in OffsetInputs, centralDirectorySize \in SizeInputs,
           totalEntries \in CountInputs :
          last = Applied("none",
                         <<centralDirectoryOffset, centralDirectorySize, totalEntries>>, <<>>)

ReturnedKinds == {last.result[k].kind : k \in 1..Len(last.result)}

\* Line 571.
CallCreateLocalFileHeader ==
  /\ Len(last.args) = 1
  /\ "LFH" \notin ReturnedKinds
  /\ last' = Applied("createLocalFileHeader", last.args,
                     Append(last.result, createLocalFileHeader(last.args[1])))
  /\ UNCHANGED <<files, heap, gens, pool, promises, wjobs, outbox, filesAtCall>>

\* Line 613.
CallCreateCentralDirectoryHeader ==
  /\ Len(last.args) = 1
  /\ "CDH" \notin ReturnedKinds
  /\ last' = Applied("createCentralDirectoryHeader", last.args,
                     Append(last.result, createCentralDirectoryHeader(last.args[1])))
  /\ UNCHANGED <<files, heap, gens, pool, promises, wjobs, outbox, filesAtCall>>

\* Lines 628-632; the array returned is enqueued in its order (633-636).
CallCreateEndRecords ==
  /\ Len(last.args) = 3
  /\ last.result = <<>>
  /\ last' = Applied("createEndRecords", last.args,
                     createEndRecords(last.args[1], last.args[2], last.args[3]))
  /\ UNCHANGED <<files, heap, gens, pool, promises, wjobs, outbox, filesAtCall>>

HeaderNext ==
  \/ CallCreateLocalFileHeader
  \/ CallCreateCentralDirectoryHeader
  \/ CallCreateEndRecords

HeaderSpec == HeaderInit /\ [][HeaderNext]_vars

(***************************************************************************)
(* Reading an output back.  The helpers below look only at the chunks of   *)
(* an output and at the entry records the generation was started with.     *)
(***************************************************************************)
RECURSIVE Positions(_, _, _)
Positions(out, kind, i) ==
  IF i > Len(out) THEN <<>>
  ELSE (IF out[i].kind = kind THEN <<i>> ELSE <<>>) \o Positions(out, kind, i + 1)

\* Index of the first chunk that is neither a local header nor content.
FirstTrailer(out) ==
  LET S == {i \in 1..Len(out) : out[i].kind \notin {"LFH", "data"}}
  IN  IF S = {} THEN Len(out) + 1 ELSE CHOOSE i \in S : \A j \in S : i <= j

\* The chunks between the i-th local header and the next header or trailer.
Emitted(out, i) ==
  LET lfh == Positions(out, "LFH", 1)
      stop == IF i < Len(lfh) THEN lfh[i + 1] ELSE FirstTrailer(out)
  IN  SubSeq(out, lfh[i] + 1, stop - 1)

RECURSIVE Flatten(_)
Flatten(chunks) ==
  IF chunks = <<>> THEN [data |-> <<>>, zeros |-> WZero]
  ELSE LET rest == Flatten(Tail(chunks))
       IN  [data |-> chunks[1].data \o rest.data, zeros |-> WAdd(chunks[1].zeros, rest.zeros)]

AllData(chunks) == \A k \in 1..Len(chunks) : chunks[k].kind = "data"

Kinds(chunks) == [k \in 1..Len(chunks) |-> chunks[k].kind]

\* CRC-32 of a sequence of emitted chunks, computed over the bytes in order.
RECURSIVE RegisterAfter(_, _)
RegisterAfter(crc, chunks) ==
  IF chunks = <<>> THEN crc
  ELSE RegisterAfter(ZeroRun(crcLoop(crc, chunks[1].data, 1), chunks[1].zeros), Tail(chunks))

CrcOfEmitted(chunks) == Xor32(RegisterAfter(MAX32, chunks), MAX32)

\* A size or offset as a reader takes it: the 32-bit field, or the value at
\* position k of the ZIP64 extra field when the field is the sentinel.
Recorded(field, header, k) ==
  IF field = MAX32 /\ header.extra # <<>> /\ k <= Len(header.extra[1].values)
  THEN header.extra[1].values[k]
  ELSE field

Closed(g) == gens[g].pc = "closed"

Entry(g, i) == heap[gens[g].fileRecords[i]]

\* C1: a successful output is, in registration order, each entry's local
\* header followed at once by all of its content chunks, then the central
\* directory records of all entries in the same order, then the end records;
\* nothing of one entry lies between the header and the content of another.
C1_OutputOrder ==
  \A g \in GenIds : Closed(g) =>
    LET out == gens[g].out
        n == Len(gens[g].fileRecords)
        lfh == Positions(out, "LFH", 1)
        cdh == Positions(out, "CDH", 1)
        trailer == FirstTrailer(out)
    IN  /\ Len(lfh) = n /\ Len(cdh) = n
        /\ n > 0 => lfh[1] = 1
        /\ \A i \in 1..n :
             /\ out[lfh[i]].name = Entry(g, i).encodedName
             /\ AllData(Emitted(out, i))
             /\ Flatten(Emitted(out, i)) =
                  [data |-> Entry(g, i).content.data, zeros |-> Entry(g, i).content.zeros]
             /\ cdh[i] = trailer + i - 1
             /\ out[cdh[i]].name = Entry(g, i).encodedName
        /\ Kinds(SubSeq(out, trailer + n, Len(out))) \in
             {<<"EOCD">>, <<"Z64EOCD", "Z64LOC", "EOCD">>}

\* C1 witness: a closed output of two entries, the first with content in
\* more than one chunk.
C1_Witness ==
  \E g \in GenIds :
    /\ Closed(g)
    /\ Len(gens[g].fileRecords) = 2
    /\ Len(Emitted(gens[g].out, 1)) >= 2
    /\ Len(Emitted(gens[g].out, 2)) >= 1

\* The end records of a closed output: the standard record is the last chunk,
\* the ZIP64 record, when there is one, is two chunks before it.
Eocd(out) == out[Len(out)]

HasZip64End(out) == Len(out) >= 3 /\ out[Len(out) - 2].kind = "Z64EOCD"

Zip64End(out) == out[Len(out) - 2]

DeclaredTotal(out) ==
  IF Eocd(out).totalEntries < MAX16 \/ ~HasZip64End(out)
  THEN W(Eocd(out).totalEntries)
  ELSE Zip64End(out).totalEntries

DeclaredCdOffset(out) ==
  IF Eocd(out).cdOffset = MAX32 /\ HasZip64End(out)
  THEN Zip64End(out).cdOffset
  ELSE Eocd(out).cdOffset

DeclaredCdSize(out) ==
  IF Eocd(out).cdSize = MAX32 /\ HasZip64End(out)
  THEN Zip64End(out).cdSize
  ELSE Eocd(out).cdSize

\* The local-header offset a central record gives: the last ZIP64 value when
\* the 32-bit field is the sentinel.
RecordedOffset(cd) ==
  IF cd.extra = <<>> THEN cd.localHeaderOffset
  ELSE Recorded(cd.localHeaderOffset, cd, Len(cd.extra[1].values))

\* C2: in a successful output each central record gives as local-header
\* offset the number of bytes emitted before that entry's local header, the
\* offsets grow strictly in registration order, and the end records give the
\* number of bytes before the central directory and the directory's length.
C2_Offsets ==
  \A g \in GenIds : Closed(g) =>
    LET out == gens[g].out
        lfh == Positions(out, "LFH", 1)
        cdh == Positions(out, "CDH", 1)
        trailer == FirstTrailer(out)
    IN  /\ Len(lfh) = Len(cdh)
        /\ \A i \in 1..Len(cdh) :
             /\ RecordedOffset(out[cdh[i]]) = TotalLength(SubSeq(out, 1, lfh[i] - 1))
             /\ i < Len(cdh) =>
                  WLt(RecordedOffset(out[cdh[i]]), RecordedOffset(out[cdh[i + 1]]))
        /\ DeclaredCdOffset(out) = TotalLength(SubSeq(out, 1, trailer - 1))
        /\ DeclaredCdSize(out) = TotalLength(SubSeq(out, trailer, trailer + Len(cdh) - 1))

\* C2 witness: a closed output whose second entry lies at or beyond
\* 0xFFFFFFFF, so that its offset field is the sentinel.
C2_Witness ==
  \E g \in GenIds :
    /\ Closed(g)
    /\ Len(gens[g].centralDirectoryEntries) = 2
    /\ gens[g].centralDirectoryEntries[2].localHeaderOffset = MAX32
    /\ gens[g].centralDirectoryEntries[1].localHeaderOffset = WZero

\* C3: in a successful output the number of local headers, the number of
\* central records and the declared total of entries are equal, and equal to
\* the number of entries the registry held when generateZipStream was called.
C3_Counts ==
  \A g \in GenIds : Closed(g) =>
    LET out == gens[g].out
        headers == Len(Positions(out, "LFH", 1))
        records == Len(Positions(out, "CDH", 1))
    IN  /\ headers = records
        /\ W(records) = DeclaredTotal(out)
        /\ records = Len(filesAtCall[g])

\* C3 witness: a closed output of two entries whose total is declared by the
\* ZIP64 record, the 16-bit field being the sentinel.
C3_Witness ==
  \E g \in GenIds :
    /\ Closed(g)
    /\ Len(filesAtCall[g]) = 2
    /\ HasZip64End(gens[g].out)
    /\ Eocd(gens[g].out).totalEntries = MAX16

\* C4: for every file entry of a successful output the CRC-32 of the local
\* header, the CRC-32 of the central record and the CRC-32 of the content
\* bytes emitted after the header are equal, and in both records the
\* compressed and uncompressed sizes (read through the ZIP64 extra when the
\* fields are the sentinel) equal the number of content bytes emitted.
C4_CrcAndSizes ==
  \A g \in GenIds : Closed(g) =>
    LET out == gens[g].out
        lfh == Positions(out, "LFH", 1)
        cdh == Positions(out, "CDH", 1)
    IN  /\ Len(lfh) = Len(cdh)
        /\ \A i \in 1..Len(lfh) : ~Entry(g, i).isDirectory =>
             LET lh == out[lfh[i]]
                 cd == out[cdh[i]]
                 bytes == Emitted(out, i)
             IN  /\ AllData(bytes)
                 /\ lh.crc32 = CrcOfEmitted(bytes)
                 /\ cd.crc32 = CrcOfEmitted(bytes)
                 /\ lh.compressedSize = lh.uncompressedSize
                 /\ cd.compressedSize = cd.uncompressedSize
                 /\ Recorded(lh.uncompressedSize, lh, 1) = TotalLength(bytes)
                 /\ Recorded(lh.compressedSize, lh, 2) = TotalLength(bytes)
                 /\ Recorded(cd.uncompressedSize, cd, 1) = TotalLength(bytes)
                 /\ Recorded(cd.compressedSize, cd, 2) = TotalLength(bytes)

\* C4 witness: a closed output with a Blob entry of ZIP64 size, whose
\* checksum came from a worker and whose content was emitted by reads.
C4_Witness ==
  \E g \in GenIds :
    /\ Closed(g)
    /\ \E i \in 1..Len(gens[g].fileRecords) :
         /\ Entry(g, i).content.type = "Blob"
         /\ Len(Emitted(gens[g].out, i)) >= 1
         /\ gens[g].out[Positions(gens[g].out, "LFH", 1)[i]].uncompressedSize = MAX32

\* The registry as the caller can observe it: the keys in order, each with
\* its entry record.
RegistryOf(f, h) == [i \in 1..Len(f) |-> [key |-> f[i].key, entry |-> h[f[i].ref]]]

\* C5: a registration whose normalized name is already registered leaves
\* the registry (entries, their content, their order) unchanged.
C5_FirstRegistrationWins ==
  [][/\ \A name \in NameInputs, content \in ContentInputs, lastModified \in DateInputs :
          (AddFile(name, content, lastModified) /\ has(files, addFileName(name)))
            => RegistryOf(files', heap') = RegistryOf(files, heap)
     /\ \A name \in NameInputs, lastModified \in DateInputs :
          (AddFolder(name, lastModified) /\ has(files, addFolderName(name)))
            => RegistryOf(files', heap') = RegistryOf(files, heap)]_vars

\* C6: every directory entry of the registry has a name ending in '/', and
\* no file entry has one.
C6_SeparatorMarksDirectories ==
  \A i \in 1..Len(files) :
    /\ heap[files[i].ref].name = files[i].key
    /\ heap[files[i].ref].isDirectory <=> endsWithSlash(files[i].key)

\* C7: a directory entry is registered with size 0 and CRC-32 0, and in a
\* successful output it has size 0 and CRC-32 0 in its local header and its
\* central record, the MS-DOS directory bit in the external attributes, and
\* no content after its header; file entries have external attributes 0.
C7_Directories ==
  /\ \A i \in 1..Len(files) : heap[files[i].ref].isDirectory =>
       /\ heap[files[i].ref].size = WZero
       /\ heap[files[i].ref].crc32 = WZero
  /\ \A g \in GenIds : Closed(g) =>
       LET out == gens[g].out
           lfh == Positions(out, "LFH", 1)
           cdh == Positions(out, "CDH", 1)
       IN  /\ Len(lfh) = Len(cdh)
           /\ \A i \in 1..Len(lfh) :
                LET lh == out[lfh[i]]
                    cd == out[cdh[i]]
                IN  IF Entry(g, i).isDirectory
                    THEN /\ lh.crc32 = WZero /\ cd.crc32 = WZero
                         /\ lh.compressedSize = WZero /\ lh.uncompressedSize = WZero
                         /\ cd.compressedSize = WZero /\ cd.uncompressedSize = WZero
                         /\ lh.extra = <<>>
                         /\ cd.externalAttributes[1] = MSDOS_DIR_ATTR
                         /\ cd.externalAttributes[2] = 0
                         /\ Emitted(out, i) = <<>>
                    ELSE cd.externalAttributes = WZero

\* C7 witness: a closed output with a directory followed by a file.
C7_Witness ==
  \E g \in GenIds :
    /\ Closed(g)
    /\ Len(gens[g].fileRecords) = 2
    /\ Entry(g, 1).isDirectory
    /\ ~Entry(g, 2).isDirectory

Unrecognized(content) == content.type \notin {"Blob", "string", "Uint8Array"}

\* C8 as stated: addFile with content of no recognized type fails with an
\* error for every name and leaves the registry unchanged.
C8_UnsupportedAlwaysThrows ==
  [][\A name \in NameInputs, content \in ContentInputs, lastModified \in DateInputs :
       (Unrecognized(content) /\ AddFile(name, content, lastModified))
         => (last'.result = "thrown" /\ RegistryOf(files', heap') = RegistryOf(files, heap))]_vars

\* C8 amended: addFile with content of no recognized type leaves the
\* registry unchanged; it fails with an error when the name as given is
\* not a key of the registry, and returns with the duplicate warning when
\* it is.
C8_UnsupportedThrowsUnlessDuplicate ==
  [][\A name \in NameInputs, content \in ContentInputs, lastModified \in DateInputs :
       (Unrecognized(content) /\ AddFile(name, content, lastModified))
         => /\ last'.result = (IF has(files, name) THEN "ignored" ELSE "thrown")
            /\ RegistryOf(files', heap') = RegistryOf(files, heap)]_vars

\* C8 witness: addFile has thrown on a registry that holds an entry.
C8_Witness == last = Call("addFile", "thrown") /\ Len(files) > 0

\* C9: the registry is emptied only by a generation with clearAfterGenerate
\* set, as its last step before closing, with the end records already
\* emitted and no error; after a successful generation without the option
\* the registry is what it was at the call.
C9_ClearOnlyAfterSuccess ==
  /\ [][(files # <<>> /\ files' = <<>>) =>
          \E g \in GenIds :
            /\ gens[g].pc = "clear" /\ gens'[g].pc = "closed"
            /\ gens[g].clearAfterGenerate
            /\ gens[g].error = ""
            /\ gens'[g].out = gens[g].out
            /\ Eocd(gens[g].out).kind = "EOCD"]_vars
  /\ [](\A g \in GenIds :
          (Closed(g) /\ ~gens[g].clearAfterGenerate) => files = filesAtCall[g])

\* C9 witness: a generation over a non-empty registry has closed and has
\* emptied the registry.
C9_Witness ==
  \E g \in GenIds :
    /\ Closed(g)
    /\ gens[g].clearAfterGenerate
    /\ filesAtCall[g] # <<>>
    /\ files = <<>>

\* C10: after a failed generation the registry holds the entries it held
\* at the call, under the same names and in the same order.
C10_FailureKeepsRegistry ==
  \A g \in GenIds : gens[g].pc = "errored" =>
    /\ files = filesAtCall[g]
    /\ Values(files) = gens[g].fileRecords
    /\ \A i \in 1..Len(files) : heap[files[i].ref].name = files[i].key

\* C10 witness: a generation over two entries has failed on a read of the
\* content pass, after it had emitted output.
C10_Witness ==
  \E g \in GenIds :
    /\ gens[g].pc = "errored"
    /\ gens[g].error = "read"
    /\ Len(files) = 2
    /\ gens[g].idx = 2

\* C11: once the consumer has cancelled an output over a non-empty registry
\* that it had not received in full, the generation never ends as a success
\* and the registry still holds what it held at the call.
C11_CancelKeepsRegistry ==
  \A g \in GenIds : (gens[g].cancelled /\ filesAtCall[g] # <<>>) =>
    /\ ~Closed(g)
    /\ files = filesAtCall[g]

\* The default queuing strategy of new ReadableStream({start}) (line 549).
highWaterMark == 1

\* Chunks produced and not yet consumed.
Backlog(gen) == Len(gen.out) - gen.taken

\* C12: once an error is raised in a generation its output is in the error
\* state: it holds no central-directory or end record, no chunk is added to
\* it afterwards, and it never closes.
C12_ErrorEndsOutput ==
  /\ [](\A g \in GenIds : gens[g].error # "" =>
          /\ gens[g].pc = "errored"
          /\ \A k \in 1..Len(gens[g].out) : gens[g].out[k].kind \in {"LFH", "data"})
  /\ [][\A g \in GenIds : gens[g].pc = "errored" =>
          /\ gens'[g].pc \in {"errored", "none"}
          /\ gens'[g].pc = "errored" => gens'[g].out = gens[g].out]_vars

\* C12 witness: the progress callback has thrown after content was emitted.
C12_Witness ==
  \E g \in GenIds :
    /\ gens[g].pc = "errored"
    /\ gens[g].error = "onProgress"
    /\ \E k \in 1..Len(gens[g].out) : gens[g].out[k].kind = "data"

\* C13: chunks are produced on demand: a step adds chunks to the output only
\* while the queue is below its high-water mark, and an output over a
\* non-empty registry is never complete before the consumer has read.
C13_LazyOutput ==
  [][\A g \in GenIds :
       /\ Len(gens'[g].out) > Len(gens[g].out) => Backlog(gens[g]) < highWaterMark
       /\ (gens'[g].pc = "closed" /\ gens'[g].fileRecords # <<>>) => gens'[g].taken > 0]_vars

\* C14: in a successful generation over a non-empty registry with a progress
\* callback, the reported overall percentages lie in 0..100, never decrease,
\* and end at 100.
C14_Progress ==
  \A g \in GenIds :
    (Closed(g) /\ gens[g].onProgress # Null /\ gens[g].fileRecords # <<>>) =>
      LET reports == [k \in 1..Len(gens[g].reports) |->
                        gens[g].reports[k].overallProgressPercent]
      IN  /\ reports # <<>>
          /\ \A k \in 1..Len(reports) : reports[k] \in 0..100
          /\ \A k \in 1..(Len(reports) - 1) : reports[k] <= reports[k + 1]
          /\ reports[Len(reports)] = 100

\* C14 witness: a successful generation that reported a value strictly
\* between 0 and 100 and whose last entry is a directory.
C14_Witness ==
  \E g \in GenIds :
    /\ Closed(g)
    /\ gens[g].onProgress # Null
    /\ Len(gens[g].fileRecords) = 2
    /\ Entry(g, 2).isDirectory
    /\ \E k \in 1..Len(gens[g].reports) :
         gens[g].reports[k].overallProgressPercent \in 1..99

\* Ids of the tasks waiting in the queue, in queue order.
QueuedIds(p) == [i \in 1..Len(p.taskQueue) |-> p.taskQueue[i].message.id]

\* No task waits while a worker of the pool is idle.
NoIdleWorkerWhileQueued ==
  pool.taskQueue # <<>> => \A i \in 1..Len(pool.workers) : pool.inUse[pool.workers[i]]

\* Tasks leave the queue in the order of their submission.
DispatchInOrder ==
  LET q == QueuedIds(pool)
  IN  /\ \A i, j \in 1..Len(q) : i < j => q[i] < q[j]
      /\ \A i \in 1..Len(q) : \A d \in DOMAIN promises :
           (\A k \in 1..Len(q) : q[k] # d) => d < q[i]

\* A worker runs at most one task.
OneTaskPerWorker == \A w \in DOMAIN wjobs : Len(wjobs[w]) <= 1

\* C15: tasks are dispatched in submission order, a task waits only while
\* every worker is busy, and a worker runs at most one task at a time.
C15_FifoDispatch == NoIdleWorkerWhileQueued /\ DispatchInOrder /\ OneTaskPerWorker

\* Every resolved promise carries the CRC-32 of the Blob of its own task.
OwnResults ==
  \A id \in DOMAIN promises : promises[id].state = "resolved" =>
    promises[id].value = computeCRC32(promises[id].blob.data)

\* C16: a report with task id i settles the promise of task i with what it
\* reports and leaves every other promise alone; a settled promise never
\* changes again; a resolved promise holds the checksum of its own Blob;
\* task ids are never reused; after the report the reporting worker is idle
\* or runs the next queued task.
C16_ReportSettlesOwnTask ==
  /\ []OwnResults
  /\ [][/\ \A w \in DOMAIN outbox : OnMessage(w) =>
            LET data == Head(outbox[w])
            IN  /\ \A id \in DOMAIN promises : id # data.id => promises'[id] = promises[id]
                /\ promises[data.id].state = "pending" =>
                     IF data.type = "crc32StreamResult"
                     THEN promises'[data.id].state = "resolved"
                          /\ promises'[data.id].value = data.crc32
                     ELSE promises'[data.id].state = "rejected"
                /\ \/ ~pool'.inUse[w]
                   \/ /\ pool.taskQueue # <<>>
                      /\ wjobs'[w] = <<>> \o wjobs[w] \o
                           <<[id |-> Head(pool.taskQueue).message.id,
                              blob |-> Head(pool.taskQueue).message.blob,
                              crc |-> MAX32,
                              reader |-> NewReader(Head(pool.taskQueue).message.blob)]>>
        /\ \A id \in DOMAIN promises :
             promises[id].state # "pending" => promises'[id] = promises[id]
        /\ pool'.nextTaskId >= pool.nextTaskId
        /\ \A id \in DOMAIN promises' \ DOMAIN promises :
             id = pool.nextTaskId /\ pool'.nextTaskId = id + 1]_vars

\* C16 witness: the second task has been resolved while the first, on
\* another worker, is still pending.
C16_Witness ==
  /\ 1 \in DOMAIN promises
  /\ promises[0].state = "pending"
  /\ promises[1].state = "resolved"
  /\ promises[0].blob # promises[1].blob

\* C17: the report of a failed task rejects the promise of that task and no
\* other, takes no task away from any worker, and frees the reporting
\* worker, which gets the task at the head of the queue if there is one that
\* can be posted.
C17_FailureIsolated ==
  [][\A w \in DOMAIN outbox : (OnMessage(w) /\ Head(outbox[w]).type = "crc32Error") =>
       LET data == Head(outbox[w])
           queue == pool.taskQueue
       IN  /\ promises'[data.id].state = "rejected"
           /\ \A id \in DOMAIN promises : id # data.id => promises'[id] = promises[id]
           /\ \A v \in DOMAIN wjobs :
                /\ Len(wjobs'[v]) >= Len(wjobs[v])
                /\ \A k \in 1..Len(wjobs[v]) : wjobs'[v][k] = wjobs[v][k]
           /\ \A v \in DOMAIN outbox : v # w => outbox'[v] = outbox[v]
           /\ IF queue # <<>> /\ Cloneable(Head(queue).message)
              THEN /\ pool'.taskQueue = Tail(queue)
                   /\ pool'.inUse[w]
                   /\ Len(wjobs'[w]) = Len(wjobs[w]) + 1
                   /\ wjobs'[w][Len(wjobs'[w])].id = Head(queue).message.id
              ELSE /\ pool'.taskQueue = queue
                   /\ ~pool'.inUse[w]]_vars

\* C17 witness: on a pool of one worker the first task was rejected and the
\* second, which had to wait for the worker, has been resolved.
C17_Witness ==
  /\ pool.numWorkers = 1
  /\ 1 \in DOMAIN promises
  /\ promises[0].state = "rejected"
  /\ promises[1].state = "resolved"

\* C18: every task that was submitted is eventually resolved or rejected.
C18_EveryTaskSettles ==
  \A id \in 0..(PoolTasks - 1) :
    [](id \in DOMAIN promises =>
         <>(id \in DOMAIN promises /\ promises[id].state # "pending"))

\* C20: the pool the constructor builds has between 2 and 6 workers.
C20_WorkerCount == pool.numWorkers >= 2 /\ pool.numWorkers <= 6

\* terminate() has been called.
Terminated == pool.workers = <<>>

\* C19: terminate() leaves the pool without workers, queue and resolvers;
\* from then on a pending promise stays pending, and a generation that
\* awaits one stays at its await.
C19_TerminateAbandonsTasks ==
  [][/\ Terminate =>
          /\ pool'.workers = <<>>
          /\ pool'.taskQueue = <<>>
          /\ pool'.taskResolvers = {}
     /\ Terminated =>
          /\ \A id \in DOMAIN promises : promises[id].state = "pending" =>
               id \in DOMAIN promises' /\ promises'[id].state = "pending"
          /\ \A g \in GenIds : gens[g].pc = "awaitCRC" =>
               gens'[g].pc = "awaitCRC" /\ gens'[g].out = gens[g].out]_vars

\* C19 witness: terminate() was called while a generation awaited a
\* checksum that a worker was computing; it has emitted nothing since.
C19_Witness ==
  /\ Terminated
  /\ pool.taskQueue = <<>>
  /\ \E g \in GenIds :
       /\ gens[g].pc = "awaitCRC"
       /\ promises[gens[g].taskId].state = "pending"

\* The header of the given kind among those returned so far.
Returned(kind) == last.result[CHOOSE k \in 1..Len(last.result) : last.result[k].kind = kind]

\* The 64-bit values in the ZIP64 extra field of a header, in order.
Zip64Values(header) == IF header.extra = <<>> THEN <<>> ELSE header.extra[1].values

\* C21: the local header and the central record of an entry have 0xFFFFFFFF
\* in both 32-bit size fields and a ZIP64 extra field that starts with the
\* uncompressed and the compressed size exactly when the entry's size is
\* >= 0xFFFFFFFF; for a smaller size both fields hold the size and the
\* extra field holds no size (none at all in the local header).  A size of
\* 0x100000000 gets the ZIP64 sizes, a size of 0xFFFFFFFE does not.
C21_Zip64SizeThreshold ==
  Len(last.args) = 1 =>
    LET size == last.args[1].size
        localHeaderOffset == last.args[1].localHeaderOffset
    IN  \A k \in 1..Len(last.result) :
          LET header == last.result[k]
              values == Zip64Values(header)
          IN  /\ IF WLt(size, MAX32)
                 THEN /\ header.compressedSize = size
                      /\ header.uncompressedSize = size
                      /\ values \in {<<>>, <<localHeaderOffset>>}
                      /\ header.kind = "LFH" => header.extra = <<>>
                 ELSE /\ header.compressedSize = MAX32
                      /\ header.uncompressedSize = MAX32
                      /\ Len(header.extra) = 1
                      /\ header.extra[1].id = ZIP64_EXTRA_FIELD_ID
                      /\ Len(values) >= 2
                      /\ values[1] = size
                      /\ values[2] = size
              /\ size = <<65536, 0>> => header.extra # <<>> /\ header.compressedSize = MAX32
              /\ size = <<65535, 65534>> =>
                   header.compressedSize = size /\ size \notin {values[i] : i \in 1..Len(values)}

\* C21 witness: both records were built for an entry of 0x100000000 bytes.
C21_Witness ==
  /\ Len(last.args) = 1
  /\ last.args[1].size = AboveMax32
  /\ ReturnedKinds = {"LFH", "CDH"}

\* C22: the end records are the ZIP64 record (56 bytes), the ZIP64 locator
\* (20 bytes) and the standard record (22 bytes), in that order, exactly
\* when the entry count is >= 0xFFFF or the central directory's size or
\* offset is >= 0xFFFFFFFF; otherwise the standard record alone.  The
\* standard record is always the last one.  0xFFFF entries force the ZIP64
\* records, 0xFFFE small entries do not.
C22_EndRecordSet ==
  (Len(last.args) = 3 /\ last.op = "createEndRecords") =>
    LET centralDirectoryOffset == last.args[1]
        centralDirectorySize == last.args[2]
        totalEntries == last.args[3]
        endRecords == last.result
        small == WLt(centralDirectoryOffset, MAX32) /\ WLt(centralDirectorySize, MAX32)
    IN  /\ IF totalEntries >= 65535 \/ ~small
           THEN /\ Kinds(endRecords) = <<"Z64EOCD", "Z64LOC", "EOCD">>
                /\ endRecords[1].byteLength = 56
                /\ endRecords[1].signature = ZIP64_END_OF_CENTRAL_DIR_SIGNATURE
                /\ endRecords[2].byteLength = 20
                /\ endRecords[2].signature = ZIP64_END_OF_CENTRAL_DIR_LOCATOR_SIGNATURE
           ELSE Kinds(endRecords) = <<"EOCD">>
        /\ endRecords[Len(endRecords)].kind = "EOCD"
        /\ endRecords[Len(endRecords)].byteLength = 22
        /\ endRecords[Len(endRecords)].signature = END_OF_CENTRAL_DIR_SIGNATURE
        /\ (totalEntries = 65535 /\ small) => Len(endRecords) = 3
        /\ (totalEntries = 65534 /\ small) => Len(endRecords) = 1

\* C22 witness: the end records were built for 0xFFFF entries with a small
\* central directory at a small offset.
C22_Witness ==
  /\ last.op = "createEndRecords"
  /\ last.args[3] = 65535
  /\ WLt(last.args[1], MAX32)
  /\ WLt(last.args[2], MAX32)
  /\ Len(last.result) = 3

\* C23: a generation handles its entries one at a time.  While it awaits
\* the checksum of entry i, its output is exactly the local header and the
\* whole content of each of the entries 1..i-1; it has at most one checksum
\* request outstanding, the one it awaits; and an entry's local header is
\* emitted only with the entry's checksum known, which is the checksum the
\* header carries.
C23_OneEntryAtATime ==
  \A g \in GenIds :
    LET out == gens[g].out
        lfh == Positions(out, "LFH", 1)
        outstanding == {id \in DOMAIN promises : promises[id].state = "pending"}
        running == {w \in DOMAIN wjobs : wjobs[w] # <<>>}
    IN  /\ Cardinality(outstanding) <= 1
        /\ Cardinality(pool.taskResolvers) <= 1
        /\ Cardinality(running) + Len(pool.taskQueue) <= 1
        /\ \A w \in running : Len(wjobs[w]) = 1
        /\ \A id \in outstanding : gens[g].pc = "awaitCRC" /\ gens[g].taskId = id
        /\ gens[g].pc = "awaitCRC" =>
             /\ Len(lfh) = gens[g].idx - 1
             /\ \A k \in 1..Len(out) : out[k].kind \in {"LFH", "data"}
             /\ \A i \in 1..(gens[g].idx - 1) :
                  Flatten(Emitted(out, i)) =
                    [data |-> Entry(g, i).content.data, zeros |-> Entry(g, i).content.zeros]
        /\ gens[g].pc = "header" => heap[Ref(g)].crc32 # Null
        /\ \A i \in 1..Len(lfh) :
             /\ Entry(g, i).crc32 # Null
             /\ out[lfh[i]].crc32 = Entry(g, i).crc32

\* C23 witness: the generation awaits the checksum of its second entry with
\* the first entry's header and content, read in two chunks, in the output.
C23_Witness ==
  \E g \in GenIds :
    /\ gens[g].pc = "awaitCRC"
    /\ gens[g].idx = 2
    /\ promises[gens[g].taskId].state = "pending"
    /\ Len(Emitted(gens[g].out, 1)) = 2

\* C24: in the flows of script.js terminate() is called only on an instance
\* whose generation has ended: its stream is closed or in error, it awaits
\* no checksum and no read, and no checksum task is registered, queued or
\* running.
C24_TerminateAfterGeneration ==
  [][(pool.workers # <<>> /\ pool'.workers = <<>>) =>
       /\ \A g \in GenIds : gens[g].pc \in {"closed", "errored"}
       /\ pool.taskResolvers = {}
       /\ pool.taskQueue = <<>>
       /\ \A w \in DOMAIN wjobs : wjobs[w] = <<>>
       /\ \A id \in DOMAIN promises : promises[id].state # "pending"]_vars

\* C24 witness: terminate() has been called in a flow whose archive held a
\* Blob entry, so that the pool had work during the generation.
C24_Witness ==
  /\ last = Call("terminate", "returned")
  /\ pool.workers = <<>>
  /\ pool.nextTaskId > 0
  /\ \E g \in GenIds : Closed(g) /\ Len(gens[g].fileRecords) = 2

\* C25 as stated: the version-made-by and version-needed fields of an
\* entry's central record equal the version-needed field of its local
\* header, 45 when the local header uses ZIP64 and 20 otherwise, whatever
\* the entry's size and offset.
C25_VersionsMirrorLocalHeader ==
  (Len(last.args) = 1 /\ ReturnedKinds = {"LFH", "CDH"}) =>
    LET localHeader == Returned("LFH")
        centralHeader == Returned("CDH")
    IN  /\ localHeader.versionNeeded =
             (IF localHeader.extra # <<>> THEN VERSION_NEEDED_ZIP64 ELSE VERSION_NEEDED_DEFAULT)
        /\ centralHeader.versionMadeBy = localHeader.versionNeeded
        /\ centralHeader.versionNeeded = localHeader.versionNeeded

\* C25 amended: the local header's version-needed field is 45 when the
\* entry's size is >= 0xFFFFFFFF and 20 otherwise; the central record's
\* version-made-by and version-needed fields are both 45 when the size or
\* the local-header offset is >= 0xFFFFFFFF, that is when the record has a
\* ZIP64 extra field, and both 20 otherwise.  So the central fields equal
\* the local header's except for an entry smaller than 0xFFFFFFFF at an
\* offset >= 0xFFFFFFFF, where they are 45 and the local header's is 20.
C25_VersionsPerRecord ==
  (Len(last.args) = 1 /\ ReturnedKinds = {"LFH", "CDH"}) =>
    LET localHeader == Returned("LFH")
        centralHeader == Returned("CDH")
        bigSize == WGe(last.args[1].size, MAX32)
        bigOffset == WGe(last.args[1].localHeaderOffset, MAX32)
    IN  /\ localHeader.versionNeeded = (IF bigSize THEN 45 ELSE 20)
        /\ centralHeader.versionNeeded = (IF bigSize \/ bigOffset THEN 45 ELSE 20)
        /\ centralHeader.versionMadeBy = centralHeader.versionNeeded
        /\ (centralHeader.versionNeeded = 45) <=> (centralHeader.extra # <<>>)
        /\ (centralHeader.versionNeeded # localHeader.versionNeeded) <=> (~bigSize /\ bigOffset)

\* C25 witness: both records were built for an entry of 2 bytes whose local
\* header lies at offset 0xFFFFFFFF.
C25_Witness ==
  /\ Len(last.args) = 1
  /\ ReturnedKinds = {"LFH", "CDH"}
  /\ last.args[1].size = W(2)
  /\ last.args[1].localHeaderOffset = MAX32

\* The bytes of a header written after the name: per extra field 2 for the
\* id, 2 for the length and 8 for each 64-bit value.
ExtraBytes(header) == IF header.extra = <<>> THEN 0 ELSE 4 + 8 * Len(Zip64Values(header))

\* The local headers of an output are as long as 30 bytes plus the name
\* plus an extra field of `zip64` bytes exactly when the size is >=
\* 0xFFFFFFFF, and their extra-field-length field is the number of extra
\* bytes written.
LocalHeadersAre(zip64) ==
  \A g \in GenIds :
    LET out == gens[g].out
        lfh == Positions(out, "LFH", 1)
    IN  \A i \in 1..Len(lfh) :
          LET header == out[lfh[i]]
          IN  /\ header.nameLength = Len(header.name)
              /\ header.name = Entry(g, i).encodedName
              /\ ExtraBytes(header) = (IF WGe(Entry(g, i).size, MAX32) THEN zip64 ELSE 0)
              /\ header.extraLength = ExtraBytes(header)
              /\ header.byteLength = 30 + Len(header.name) + ExtraBytes(header)

\* The step that emits a local header advances the cursor by its length.
CursorPassesHeader ==
  \A g \in GenIds :
    (gens[g].pc = "header" /\ gens'[g].pc = "content") =>
      LET header == gens'[g].out[Len(gens'[g].out)]
      IN  /\ header.kind = "LFH"
          /\ gens'[g].out = Append(gens[g].out, header)
          /\ gens'[g].currentOffset =
               WAdd(gens[g].currentOffset, W(30 + Len(header.name) + ExtraBytes(header)))

\* C26 as stated: a local header is 30 bytes plus the encoded name, plus a
\* 28-byte ZIP64 extra field exactly when the size is >= 0xFFFFFFFF; its
\* extra-field-length field is the number of extra bytes written, and the
\* cursor advances by the header's length.
C26_LocalHeader28 == []LocalHeadersAre(28) /\ [][CursorPassesHeader]_vars

\* C26 amended: the same with a ZIP64 extra field of 20 bytes: id, length
\* 16, the uncompressed and the compressed size.
C26_LocalHeader20 == []LocalHeadersAre(20) /\ [][CursorPassesHeader]_vars

\* C26 witness: the local header of an entry of 0xFFFFFFFF bytes has just
\* been emitted.
C26_Witness ==
  \E g \in GenIds :
    /\ gens[g].pc = "content"
    /\ gens[g].out[Len(gens[g].out)].kind = "LFH"
    /\ gens[g].out[Len(gens[g].out)].extra # <<>>
    /\ Entry(g, gens[g].idx).size = MAX32

\* C27: the 32-bit offset field of a central record holds the local-header
\* offset when it is < 0xFFFFFFFF; from 0xFFFFFFFF on the field is
\* 0xFFFFFFFF and the offset is the last 64-bit value of the ZIP64 extra
\* field, after the two sizes when the size is >= 0xFFFFFFFF and alone
\* otherwise.  The extra-field-length field is the number of extra bytes
\* written, at most 28, and the record is 46 bytes plus the name plus the
\* extra bytes long.
C27_CentralOffsetField ==
  (Len(last.args) = 1 /\ "CDH" \in ReturnedKinds) =>
    LET header == Returned("CDH")
        size == last.args[1].size
        localHeaderOffset == last.args[1].localHeaderOffset
        sizes == IF WGe(size, MAX32) THEN <<size, size>> ELSE <<>>
    IN  /\ IF WLt(localHeaderOffset, MAX32)
           THEN /\ header.localHeaderOffset = localHeaderOffset
                /\ Zip64Values(header) = sizes
           ELSE /\ header.localHeaderOffset = MAX32
                /\ Zip64Values(header) = sizes \o <<localHeaderOffset>>
        /\ header.extra # <<>> =>
             /\ header.extra[1].id = ZIP64_EXTRA_FIELD_ID
             /\ header.extra[1].dataSize = 8 * Len(Zip64Values(header))
             /\ Zip64Values(header) # <<>>
        /\ header.extraLength = ExtraBytes(header)
        /\ ExtraBytes(header) <= 28
        /\ header.nameLength = Len(header.name)
        /\ header.byteLength = 46 + Len(header.name) + ExtraBytes(header)

\* C27 witness: the central record of an entry of 2 bytes at offset
\* 0x100000027 has been built: its extra field holds the offset alone.
C27_Witness ==
  /\ Len(last.args) = 1
  /\ "CDH" \in ReturnedKinds
  /\ last.args[1].size = W(2)
  /\ last.args[1].localHeaderOffset = WAdd(AboveMax32, W(39))
  /\ ExtraBytes(Returned("CDH")) = 12

\* C28: when the ZIP64 end records are emitted, the offset in the ZIP64
\* locator is the number of bytes emitted before the ZIP64 end record: the
\* offset of the central directory plus its size, the cursor after the last
\* central record.
C28_LocatorOffset ==
  \A g \in GenIds :
    (gens[g].pc \in {"clear", "closed"} /\ HasZip64End(gens[g].out)) =>
      LET out == gens[g].out
          locator == out[Len(out) - 1]
          trailer == FirstTrailer(out)
      IN  /\ locator.kind = "Z64LOC"
          /\ locator.zip64EndOffset = TotalLength(SubSeq(out, 1, Len(out) - 3))
          /\ locator.zip64EndOffset = gens[g].currentOffset
          /\ locator.zip64EndOffset =
               WAdd(TotalLength(SubSeq(out, 1, trailer - 1)),
                    TotalLength(SubSeq(out, trailer, Len(out) - 3)))
          /\ Zip64End(out).cdOffset = TotalLength(SubSeq(out, 1, trailer - 1))
          /\ Zip64End(out).cdSize = TotalLength(SubSeq(out, trailer, Len(out) - 3))

\* C28 witness: a closed output of two entries with ZIP64 end records whose
\* locator points beyond 0xFFFFFFFF.
C28_Witness ==
  \E g \in GenIds :
    /\ Closed(g)
    /\ Len(gens[g].fileRecords) = 2
    /\ HasZip64End(gens[g].out)
    /\ WLt(MAX32, gens[g].out[Len(gens[g].out) - 1].zip64EndOffset)

\* C29: the entry count, the size and the offset of the central directory
\* can be read back from the end records.  A field of the standard record
\* that is not its sentinel (0xFFFF, 0xFFFFFFFF) holds the true value; when
\* a field is the sentinel the ZIP64 record is there and holds the true
\* count, size and offset.  No field holds a value cut to its width.
C29_EndRecordsRecoverable ==
  last.op = "createEndRecords" =>
    LET centralDirectoryOffset == last.args[1]
        centralDirectorySize == last.args[2]
        totalEntries == last.args[3]
        endRecords == last.result
        eocd == endRecords[Len(endRecords)]
        sentinel == \/ eocd.totalEntries = 65535
                    \/ eocd.entriesOnDisk = 65535
                    \/ eocd.cdSize = <<65535, 65535>>
                    \/ eocd.cdOffset = <<65535, 65535>>
    IN  /\ eocd.kind = "EOCD"
        /\ eocd.totalEntries # 65535 => eocd.totalEntries = totalEntries
        /\ eocd.entriesOnDisk # 65535 => eocd.entriesOnDisk = totalEntries
        /\ eocd.cdSize # <<65535, 65535>> => eocd.cdSize = centralDirectorySize
        /\ eocd.cdOffset # <<65535, 65535>> => eocd.cdOffset = centralDirectoryOffset
        /\ sentinel =>
             /\ Len(endRecords) = 3
             /\ endRecords[1].kind = "Z64EOCD"
             /\ endRecords[1].totalEntries = W(totalEntries)
             /\ endRecords[1].entriesOnDisk = W(totalEntries)
             /\ endRecords[1].cdSize = centralDirectorySize
             /\ endRecords[1].cdOffset = centralDirectoryOffset
        /\ DeclaredTotal(endRecords) = W(totalEntries)
        /\ DeclaredCdSize(endRecords) = centralDirectorySize
        /\ DeclaredCdOffset(endRecords) = centralDirectoryOffset

\* C29 witness: the end records of 0x10000 entries, a count that does not
\* fit 16 bits, with a small central directory at a small offset.
C29_Witness ==
  /\ last.op = "createEndRecords"
  /\ last.args[3] = 65536
  /\ last.args[1] = W(39)
  /\ last.args[2] = W(2)
  /\ last.result[1].totalEntries = <<1, 0>>

\* C30: for every content and every way its stream is cut into chunks, the
\* checksum a worker computes over the chunks is the checksum computeCRC32
\* gives for the whole content: after each chunk the worker's register is
\* the register of the synchronous loop over the bytes read so far, and the
\* value posted and resolved is computeCRC32 of all the bytes, whatever the
\* chunkSize given.
C30_WorkerCrcIsComputeCRC32 ==
  /\ \A w \in DOMAIN wjobs : \A j \in 1..Len(wjobs[w]) :
       LET job == wjobs[w][j]
       IN  job.crc = crcLoop(MAX32, SubSeq(job.blob.data, 1, job.reader.pos), 1)
  /\ \A w \in DOMAIN outbox : \A k \in 1..Len(outbox[w]) :
       /\ outbox[w][k].type = "crc32StreamResult"
       /\ outbox[w][k].crc32 = computeCRC32(promises[outbox[w][k].id].blob.data)
  /\ \A id \in DOMAIN promises :
       /\ promises[id].state \in {"pending", "resolved"}
       /\ promises[id].state = "resolved" =>
            promises[id].value = computeCRC32(promises[id].blob.data)

\* C30 witness: the checksum of the three bytes 97, 0, 255 has been
\* resolved; it is 0x9B569788.
C30_Witness ==
  \E id \in DOMAIN promises :
    /\ promises[id].state = "resolved"
    /\ promises[id].blob.data = <<97, 0, 255>>
    /\ promises[id].value = <<39766, 38792>>

(***************************************************************************)
(* Entries without content.  The caller registers files whose content is   *)
(* empty (a string, a Uint8Array, a Blob) next to files that have content, *)
(* and generates with or without a progress callback.                      *)
(***************************************************************************)
EmptyNames == {<<233>>, <<97>>}

EmptyContents ==
  {Content("string", <<>>, WZero),
   Content("Uint8Array", <<>>, WZero),
   Content("Blob", <<>>, WZero),
   Content("string", <<233>>, WZero),
   SmallBlob}

EmptyNext ==
  \/ \E name \in EmptyNames, content \in EmptyContents, lastModified \in DateInputs :
       Quiet /\ AddFile(name, content, lastModified)
  \/ \E g \in GenIds, onProgress \in {Null} \cup ProgressInputs :
       Quiet /\ GenerateZipStream(g, TRUE, onProgress)
  \/ \E g \in GenIds : GenCrc(g)
  \/ \E g \in GenIds : GenResume(g)
  \/ \E g \in GenIds : GenHeader(g)
  \/ \E g \in GenIds : GenContent(g)
  \/ \E g \in GenIds : GenRead(g)
  \/ \E g \in GenIds : GenReadError(g)
  \/ \E g \in GenIds : GenCentral(g)
  \/ \E g \in GenIds : GenCentralDirectory(g)
  \/ \E g \in GenIds : GenEndRecords(g)
  \/ \E g \in GenIds : GenClose(g)
  \/ \E w \in Workers : \E j \in 1..Len(wjobs[w]) : WorkerRead(w, j)
  \/ \E w \in Workers : \E j \in 1..Len(wjobs[w]) : WorkerReadError(w, j)
  \/ \E w \in Workers : OnMessage(w)

EmptySpec == Init /\ [][EmptyNext]_vars

\* The progress events the callback got for the entry named `name`.
ReportsFor(gen, name) ==
  {k \in 1..Len(gen.reports) : gen.reports[k].filename = name}

\* Where chunk i of an output starts.
StartOf(out, i) == TotalLength(SubSeq(out, 1, i - 1))

\* C31: in a successful output, a file entry with empty content (a string,
\* a Uint8Array or a Blob of size 0) has a local header with CRC-32 0 and
\* both sizes 0 and no content chunk after it, and has its central-directory
\* record, with the same values; the local header of the next entry starts
\* at this entry's offset plus the length of its header, and that is the
\* offset the next entry's central record carries; the callback, if there
\* is one, got exactly one event for the entry, with 0 of 0 bytes.
C31_EmptyEntry ==
  \A g \in GenIds : gens[g].pc = "closed" =>
    LET out == gens[g].out
        n == Len(gens[g].fileRecords)
        lfh == Positions(out, "LFH", 1)
        cdh == Positions(out, "CDH", 1)
    IN  \A i \in 1..n :
          LET entry == heap[gens[g].fileRecords[i]]
          IN  (~entry.isDirectory /\ ContentSize(entry.content) = WZero) =>
                /\ Len(lfh) = n /\ Len(cdh) = n
                /\ out[lfh[i]].name = entry.encodedName
                /\ out[lfh[i]].crc32 = WZero
                /\ out[lfh[i]].compressedSize = WZero
                /\ out[lfh[i]].uncompressedSize = WZero
                /\ out[lfh[i]].extra = <<>>
                /\ out[lfh[i] + 1].kind \in {"LFH", "CDH"}
                /\ out[cdh[i]].name = entry.encodedName
                /\ out[cdh[i]].crc32 = WZero
                /\ out[cdh[i]].compressedSize = WZero
                /\ out[cdh[i]].uncompressedSize = WZero
                /\ out[cdh[i]].localHeaderOffset = StartOf(out, lfh[i])
                /\ i < n =>
                     /\ lfh[i + 1] = lfh[i] + 1
                     /\ StartOf(out, lfh[i + 1]) =
                          WAdd(StartOf(out, lfh[i]), W(out[lfh[i]].byteLength))
                     /\ out[cdh[i + 1]].localHeaderOffset =
                          WAdd(out[cdh[i]].localHeaderOffset, W(30 + Len(entry.encodedName)))
                /\ gens[g].onProgress # Null =>
                     /\ Cardinality(ReportsFor(gens[g], entry.name)) = 1
                     /\ \A k \in ReportsFor(gens[g], entry.name) :
                          /\ gens[g].reports[k].fileBytesProcessed = WZero
                          /\ gens[g].reports[k].fileTotalBytes = WZero

\* C31 witness: a successful output with a callback whose first entry is an
\* empty Blob, checksummed by a worker, and whose second entry has content.
C31_Witness ==
  \E g \in GenIds :
    /\ gens[g].pc = "closed"
    /\ gens[g].onProgress # Null
    /\ Len(gens[g].fileRecords) = 2
    /\ heap[gens[g].fileRecords[1]].content = Content("Blob", <<>>, WZero)
    /\ heap[gens[g].fileRecords[2]].size # WZero
    /\ Len(gens[g].reports) >= 3

(***************************************************************************)
(* dateToDos on its own, and the two header fields written from its        *)
(* result.  A modification time is a Date by its local-time fields; the    *)
(* inputs are the ends of each field's range and the years around the two  *)
(* ends of the range an MS-DOS date can hold (1980..2107).                 *)
(***************************************************************************)
YearInputs == {1979, 1980, 2023, 2107, 2108}

JsDateInputs ==
  [year : YearInputs, month : {0, 11}, date : {1, 31},
   hours : {0, 23}, minutes : {0, 59}, seconds : {0, 1, 59}]

DateInit ==
  /\ files = <<>>
  /\ heap = <<>>
  /\ gens = [g \in GenIds |-> InitGen]
  /\ pool = InitPool
  /\ promises = <<>>
  /\ wjobs = [w \in Workers |-> <<>>]
  /\ outbox = [w \in Workers |-> <<>>]
  /\ filesAtCall = [g \in GenIds |-> <<>>]
  /\ \E jsDate \in JsDateInputs : last = Applied("none", <<jsDate>>, <<>>)

\* Lines 261 and 311: dateToDos(lastModified).
CallDateToDos ==
  /\ last.op = "none"
  /\ last' = Applied("dateToDos", last.args, <<dateToDos(last.args[1])>>)
  /\ UNCHANGED <<files, heap, gens, pool, promises, wjobs, outbox, filesAtCall>>

\* view.setUint16 of the two values into a header (lines 361-362).
WriteDosFields ==
  /\ last.op = "dateToDos"
  /\ last' = Applied("setUint16", last.args,
                     <<last.result[1],
                       [dosTime |-> U16(last.result[1].dosTime),
                        dosDate |-> U16(last.result[1].dosDate)]>>)
  /\ UNCHANGED <<files, heap, gens, pool, promises, wjobs, outbox, filesAtCall>>

DateNext ==
  \/ CallDateToDos
  \/ WriteDosFields

DateSpec == DateInit /\ [][DateNext]_vars

\* The time an MS-DOS time and date field pair stands for.
DosDecode(dos) ==
  [year |-> 1980 + (dos.dosDate \div 512),
   month |-> (dos.dosDate \div 32) % 16,
   date |-> dos.dosDate % 32,
   hours |-> dos.dosTime \div 2048,
   minutes |-> (dos.dosTime \div 32) % 64,
   seconds |-> 2 * (dos.dosTime % 32)]

\* What the fields must stand for: the time itself with the seconds rounded
\* down to an even value, or 1980-01-01 00:00 for a year before 1980.
DosExpected(jsDate) ==
  IF jsDate.year < 1980
  THEN [year |-> 1980, month |-> 1, date |-> 1, hours |-> 0, minutes |-> 0, seconds |-> 0]
  ELSE [year |-> jsDate.year, month |-> jsDate.month + 1, date |-> jsDate.date,
        hours |-> jsDate.hours, minutes |-> jsDate.minutes,
        seconds |-> 2 * (jsDate.seconds \div 2)]

\* C32: for every modification time, the two values dateToDos returns fit
\* in 16 bits each, and they (and the fields written from them) decode to
\* the time's year, month, day, hour and minute and to its seconds rounded
\* down to an even value, or to 1980-01-01 00:00 when the year is before
\* 1980.
C32_DosFieldsDecode ==
  last.op \in {"dateToDos", "setUint16"} =>
    \A k \in 1..Len(last.result) :
      /\ last.result[k].dosTime \in 0..(Half - 1)
      /\ last.result[k].dosDate \in 0..(Half - 1)
      /\ DosDecode(last.result[k]) = DosExpected(last.args[1])

(***************************************************************************)
(* Two generations of one registry, one after the other: the caller        *)
(* registers its entries, calls generateZipStream, waits for that stream   *)
(* to end and calls generateZipStream again.                               *)
(***************************************************************************)
TwoGens == {1, 2}

RepeatContents == {Content("string", <<233>>, WZero), SmallBlob, BigBlob}

RepeatInit ==
  /\ files = <<>>
  /\ heap = <<>>
  /\ gens = [g \in TwoGens |-> InitGen]
  /\ pool = InitPool
  /\ promises = <<>>
  /\ wjobs = [w \in Workers |-> <<>>]
  /\ outbox = [w \in Workers |-> <<>>]
  /\ last = Call("none", "")
  /\ filesAtCall = [g \in TwoGens |-> <<>>]

\* The second call: the first stream has closed or failed.
SecondGenerateZipStream(clearAfterGenerate) ==
  /\ gens[1].pc \in {"closed", "errored"}
  /\ GenerateZipStream(2, clearAfterGenerate, Null)

RepeatNext ==
  \/ \E name \in EmptyNames, content \in RepeatContents, lastModified \in DateInputs :
       Quiet /\ AddFile(name, content, lastModified)
  \/ \E name \in StreamNames, lastModified \in DateInputs :
       Quiet /\ AddFolder(name, lastModified)
  \/ \E clearAfterGenerate \in BOOLEAN :
       Quiet /\ GenerateZipStream(1, clearAfterGenerate, Null)
  \/ \E clearAfterGenerate \in BOOLEAN : SecondGenerateZipStream(clearAfterGenerate)
  \/ \E g \in TwoGens : GenCrc(g)
  \/ \E g \in TwoGens : GenResume(g)
  \/ \E g \in TwoGens : GenHeader(g)
  \/ \E g \in TwoGens : GenContent(g)
  \/ \E g \in TwoGens : GenRead(g)
  \/ \E g \in TwoGens : GenReadError(g)
  \/ \E g \in TwoGens : GenCentral(g)
  \/ \E g \in TwoGens : GenCentralDirectory(g)
  \/ \E g \in TwoGens : GenEndRecords(g)
  \/ \E g \in TwoGens : GenClose(g)
  \/ \E w \in Workers : \E j \in 1..Len(wjobs[w]) : WorkerRead(w, j)
  \/ \E w \in Workers : \E j \in 1..Len(wjobs[w]) : WorkerReadError(w, j)
  \/ \E w \in Workers : OnMessage(w)

RepeatSpec == RepeatInit /\ [][RepeatNext]_vars

\* The bytes of an output: its chunks, with every run of content chunks
\* taken as one, since a Blob's stream may cut the same bytes differently.
RECURSIVE BytesOf(_)
BytesOf(out) ==
  IF out = <<>> THEN <<>>
  ELSE IF out[1].kind # "data" THEN <<out[1]>> \o BytesOf(Tail(out))
  ELSE LET S == {k \in 1..Len(out) : \A j \in 1..k : out[j].kind = "data"}
           run == CHOOSE k \in S : \A j \in S : j <= k
       IN  <<Flatten(SubSeq(out, 1, run))>> \o BytesOf(SubSeq(out, run + 1, Len(out)))

\* The Blob entries of a generation.
BlobEntries(gen) ==
  {i \in 1..Len(gen.fileRecords) : heap[gen.fileRecords[i]].content.type = "Blob"}

\* C33: when a generation with clearAfterGenerate false has succeeded and
\* generateZipStream is called again with no registration in between, the
\* second call asks the pool for no checksum (the pool has been asked once
\* for each Blob entry, by the first call), and a successful second output
\* is byte for byte the first one.
C33_RepeatIsIdentical ==
  (gens[1].pc = "closed" /\ ~gens[1].clearAfterGenerate /\ gens[2].pc # "none") =>
    /\ gens[2].fileRecords = gens[1].fileRecords
    /\ gens[2].pc # "awaitCRC"
    /\ gens[2].taskId = InitGen.taskId
    /\ pool.nextTaskId = Cardinality(BlobEntries(gens[1]))
    /\ gens[2].pc = "closed" => BytesOf(gens[2].out) = BytesOf(gens[1].out)

\* C33 witness: two successful outputs of a registry with a Blob of ZIP64
\* size, which the two generations read in different chunks.
C33_Witness ==
  /\ gens[1].pc = "closed"
  /\ ~gens[1].clearAfterGenerate
  /\ gens[2].pc = "closed"
  /\ \E i \in BlobEntries(gens[1]) : heap[gens[1].fileRecords[i]].content = BigBlob
  /\ gens[2].out # gens[1].out
  /\ Len(gens[1].fileRecords) = 2

(***************************************************************************)
(* A caller that does not keep the discipline: addFile and addFolder are   *)
(* called while a generation is suspended (on its checksum or on a read of *)
(* its source), and generateZipStream is called a second time while the    *)
(* first generation is still running.  The registrations come before the  *)
(* second call; workers and sources do not fail.                           *)
(***************************************************************************)
OverlapNames == {<<233>>, <<233, 47>>, <<97>>}

OverlapContents == {Content("string", <<233>>, WZero), TinyBlob}

\* The second call of generateZipStream, at any time after the first.
OverlappingGenerateZipStream(clearAfterGenerate) ==
  /\ gens[1].pc # "none"
  /\ GenerateZipStream(2, clearAfterGenerate, Null)

OverlapNext ==
  \/ \E name \in OverlapNames, content \in OverlapContents, lastModified \in DateInputs :
       gens[2].pc = "none" /\ AddFile(name, content, lastModified)
  \/ \E name \in EmptyNames, lastModified \in DateInputs :
       gens[2].pc = "none" /\ AddFolder(name, lastModified)
  \/ \E clearAfterGenerate \in BOOLEAN : GenerateZipStream(1, clearAfterGenerate, Null)
  \/ \E clearAfterGenerate \in BOOLEAN : OverlappingGenerateZipStream(clearAfterGenerate)
  \/ \E g \in TwoGens : GenCrc(g)
  \/ \E g \in TwoGens : GenResume(g)
  \/ \E g \in TwoGens : GenHeader(g)
  \/ \E g \in TwoGens : GenContent(g)
  \/ \E g \in TwoGens : GenRead(g)
  \/ \E g \in TwoGens : GenCentral(g)
  \/ \E g \in TwoGens : GenCentralDirectory(g)
  \/ \E g \in TwoGens : GenEndRecords(g)
  \/ \E g \in TwoGens : GenClose(g)
  \/ \E w \in Workers : \E j \in 1..Len(wjobs[w]) : WorkerRead(w, j)
  \/ \E w \in Workers : OnMessage(w)

OverlapSpec == RepeatInit /\ [][OverlapNext]_vars

\* The entry record `ref` is in the output of generation gen: its local
\* header, its content and its central-directory record.
Archived(gen, ref) ==
  \E k \in 1..Len(gen.fileRecords) :
    LET lfh == Positions(gen.out, "LFH", 1)
        cdh == Positions(gen.out, "CDH", 1)
    IN  /\ gen.fileRecords[k] = ref
        /\ k <= Len(lfh) /\ k <= Len(cdh)
        /\ gen.out[lfh[k]].name = heap[ref].encodedName
        /\ gen.out[cdh[k]].name = heap[ref].encodedName
        /\ Flatten(Emitted(gen.out, k)) =
             [data |-> heap[ref].content.data, zeros |-> heap[ref].content.zeros]

\* C34: whenever the final clear of a generation removes an entry from the
\* registry, that entry's local header, content and central-directory
\* record are in that generation's output, whatever addFile and addFolder
\* calls were made while the generation was suspended.
C34_ClearedEntriesWereArchived ==
  [][\A g \in TwoGens :
       (gens[g].pc = "clear" /\ gens'[g].pc = "closed") =>
         \A i \in 1..Len(files) :
           files[i].ref \notin Refs(Values(files')) => Archived(gens'[g], files[i].ref)]_vars

\* C35: in every successful output, also of a generation that overlapped
\* with another one on the same instance, each central-directory record
\* carries the offset at which that output has the entry's local header.
C35_OverlapSelfConsistent ==
  \A g \in TwoGens : gens[g].pc = "closed" =>
    LET out == gens[g].out
        lfh == Positions(out, "LFH", 1)
        cdh == Positions(out, "CDH", 1)
    IN  /\ Len(lfh) = Len(cdh)
        /\ \A i \in 1..Len(cdh) :
             /\ out[cdh[i]].name = out[lfh[i]].name
             /\ out[cdh[i]].localHeaderOffset = StartOf(out, lfh[i])

\* C36: between pool operations (a submission, the handling of a worker's
\* result or error message or of its error event, each with the dispatch
\* attempt it ends with), a non-empty task queue means that every worker is
\* marked busy, and no task waits behind one that cannot be dispatched.
C36_QueueOnlyWhenAllBusy ==
  /\ pool.taskQueue # <<>> => \A w \in DOMAIN pool.inUse : pool.inUse[w]
  /\ \A i, j \in 1..Len(pool.taskQueue) :
       i < j => Cloneable(pool.taskQueue[i].message)

(***************************************************************************)
(* The flows of src/script.js with progress: the encoder, the workers, the *)
(* handlers of their messages, the Response that reads the stream and the  *)
(* flow itself go on whenever they can.  Failures of a source or of a      *)
(* worker may happen and need not.                                         *)
(***************************************************************************)
UiProgress ==
  \/ \E g \in GenIds : GenCrc(g)
  \/ \E g \in GenIds : GenResume(g)
  \/ \E g \in GenIds : GenHeader(g)
  \/ \E g \in GenIds : GenContent(g)
  \/ \E g \in GenIds : GenRead(g)
  \/ \E g \in GenIds : GenCentral(g)
  \/ \E g \in GenIds : GenCentralDirectory(g)
  \/ \E g \in GenIds : GenEndRecords(g)
  \/ \E g \in GenIds : GenClose(g)
  \/ \E w \in Workers : \E j \in 1..Len(wjobs[w]) : WorkerRead(w, j)
  \/ \E w \in Workers : OnMessage(w)
  \/ \E g \in GenIds : ConsumerRead(g)
  \/ \E g \in GenIds : UiDownloaded(g)
  \/ \E g \in GenIds : UiDownloadFailed(g)
  \/ UiTerminate

UiLive == UiSpec /\ WF_vars(UiProgress)

\* C37: once the click flow has called downloadZip, the pool of its
\* BrowserZip is eventually terminated, whether the generation succeeds or
\* fails; and the flow gets past terminate() to its success notification
\* only when the archive was generated.
C37_PoolEventuallyTerminated ==
  /\ (last = Call("generateZipStream", "returned")) ~> (pool.workers = <<>>)
  /\ [](last = Call("terminate", "returned") => \A g \in GenIds : gens[g].pc = "closed")

====
